---------------------------- MODULE Spec2Model ----------------------------
(***************************************************************************)
(* A model of HexClaw (louisjham/hexstrike-ai): the two-tier inference     *)
(* cache (cache.py), the inference router and its token ledger             *)
(* (inference.py), the approval gate and the cancellation registry         *)
(* (telegram.py) and the job daemon (daemon.py).                           *)
(*                                                                         *)
(* The specifications share the variables:                                 *)
(*   SpecCache  - check / store calls on the Cache singleton, TTL expiry   *)
(*   SpecAsk    - inference.ask calls (cache in front, ledger behind)      *)
(*   Spec       - the daemon: enqueue, heartbeat drain, workers,           *)
(*                run_skill, approval gates, operator commands             *)
(* SpecCrash adds a kill -9 and a restart of the process to Spec, and      *)
(* SpecForeign adds input from a chat other than the allowlisted one.      *)
(* SpecMonitor (monitor.py), SpecReport (telegram.send_report),            *)
(* SpecPlanner (planner.py) and SpecOrch (tg_bot.py, orchestrate) each     *)
(* exercise one component.  SpecReply puts the reply command of tg_bot.py  *)
(* beside one job with its gate, and SpecStop follows the daemon, in the   *)
(* long-running and in the once mode, to the end of the process.           *)
(* SpecConc interleaves the Redis commands of store calls made by two      *)
(* processes, SpecDown follows the calls of Daemon.shutdown in one         *)
(* lifetime of the process, SpecSuggest calls data.suggest_next_from_data  *)
(* on an aggregate, and SpecLive is the daemon that keeps running under    *)
(* weak fairness of its heartbeat and of its worker tasks.                 *)
(***************************************************************************)
EXTENDS Integers, Sequences, FiniteSets, TLC

(***************************************************************************)
(* Bounds of the model.                                                    *)
(***************************************************************************)
\* number of cache / ask calls explored in one behaviour
MaxOps == 3
\* number of jobs ever enqueued (job ids are 1..MaxJobs)
MaxJobs == 3
\* number of button presses delivered to _handle_callback per behaviour
MaxPresses == 2
\* number of /cancel commands per behaviour
MaxCancels == 1
\* number of times the process is killed and restarted
MaxRestarts == 1
\* number of updates from chats other than the allowlisted one
MaxForeign == 1

(***************************************************************************)
(* Program constants.                                                      *)
(***************************************************************************)
\* cache.py:61, read from the environment; the model is configured with 2
CACHE_SEMANTIC_MAX_ENTRIES == 2
\* cache.py:60, CACHE_SEMANTIC_THRESHOLD = 0.92, in hundredths
THRESHOLD_PCT == 92
\* inference.py:109
MAX_RETRIES == 3
\* daemon.py:95, read from the environment; the model is configured with 2
MAX_CONCURRENT_JOBS == 2

\* Python's None, where a string, an entry id, a model name or a cost stands
None == "<None>"
NoId == <<>>
NoModel == <<>>
NoCost == -1

(***************************************************************************)
(*                              cache.py                                   *)
(***************************************************************************)

\* inference.py:355   full_prompt = f"{system}\n\n{prompt}" if system else prompt
\* A string is a sequence of pieces; the empty system prompt is None.
FullPrompt(system, prompt) ==
    IF system = None THEN <<prompt>> ELSE <<system, "\n\n", prompt>>

\* the (system, prompt) pairs callers pass to ask
AskInputs == { <<None, "What is 2+2?">>,
               <<None, "What is 2 plus 2?">>,
               <<"You are terse.", "What is 2+2?">> }

\* the prompts the cache is called with
Prompts == { FullPrompt(i[1], i[2]) : i \in AskInputs }

\* texts a provider may answer with
Responses == {"4", "four"}

\* cache.py:105-141  _embed / _ngram_embed: a fixed non-negative frequency
\* vector per text.  The md5-bucketed trigram counts are represented by
\* two-dimensional count vectors: the two arithmetic questions are near
\* each other, the one with a system prompt in front is far from both.
Embed(p) ==
    CASE p = <<"What is 2+2?">>      -> <<4, 0>>
      [] p = <<"What is 2 plus 2?">> -> <<4, 1>>
      [] OTHER                       -> <<0, 3>>

Dot(a, b) == a[1] * b[1] + a[2] * b[2]

\* cache.py:144-151  _cosine, as the exact rational num/den with
\* den = |a||b|; compared through squares since all counts are >= 0.
\* CosGE(a, b, pct): cos(a,b) >= pct/100 ; denom = 0 gives 0.0
CosGE(a, b, pct) ==
    IF Dot(a, a) * Dot(b, b) = 0
    THEN pct <= 0
    ELSE Dot(a, b) * Dot(a, b) * 10000 >= pct * pct * Dot(a, a) * Dot(b, b)

\* cos(q, a) > cos(q, b)
CosGT(q, a, b) ==
    LET ca == IF Dot(q, q) * Dot(a, a) = 0 THEN 0 ELSE 1
        cb == IF Dot(q, q) * Dot(b, b) = 0 THEN 0 ELSE 1
    IN  IF ca = 0 THEN FALSE
        ELSE IF cb = 0 THEN Dot(q, a) > 0
        ELSE Dot(q, a) * Dot(q, a) * Dot(b, b) > Dot(q, b) * Dot(q, b) * Dot(a, a)

\* cos(q, a) > 0.0
CosPos(q, a) == Dot(q, q) * Dot(a, a) # 0 /\ Dot(q, a) > 0

VARIABLES
    r_exact,        \* Cache._r_exact is not None
    r_sem,          \* Cache._r_sem is not None
    embed_backend,  \* _EMBED_BACKEND
    exact,          \* Redis DB 0: prompt (through its sha256 key) -> response
    sem_index,      \* Redis DB 1 list "sem:index": entry ids, oldest first
    sem_rec,        \* Redis DB 1 hashes "sem:embed:<id>": id -> record
    stats,          \* Cache._hits_exact / _hits_semantic / _misses
    clock,          \* time.time() as seen by _store_semantic
    ledger,         \* token_log rows, in insertion order
    nOps,           \* calls made so far (bounded by MaxOps)
    last            \* the last call: what was called and what it returned


\* the state of telegram.py and daemon.py
VARIABLES
    bot_token,          \* BOT_TOKEN is set (the bot task polls for updates)
    chat_id,            \* TELEGRAM_CHAT_ID is set
    mainPc,             \* where main() / Daemon.run is
    jobs,               \* Daemon._active_jobs: job id -> Job
    queue,              \* Daemon._queue
    workers,            \* the task of each job: where it is in _run_job
    sem,                \* the value of Daemon._semaphore
    cancelled_jobs,     \* telegram._cancelled_jobs
    pending_approvals,  \* telegram._pending_approvals: id -> state of the future
    buttons,            \* callback payloads of the keyboards the operator has
    notif,              \* per job: the terminal notifications emitted
    nextId,             \* the next fresh job id (uuid4)
    presses,            \* button presses delivered so far
    cancels,            \* /cancel commands received so far
    gate,               \* history, per job: the results set on its future,
                        \*   what request_approval returned, whether /cancel
                        \*   arrived during the wait
    lifetime,           \* how often the process was restarted
    killedRunning,      \* history: jobs that were running when it was killed
    warned,             \* the <<job, step>> of each "failed - Continuing
                        \*   chain..." message sent
    foreign,            \* updates handled that came from a chat other
                        \*   than the allowlisted one
    once                \* Daemon.once (--once)

daemonVars == <<once, bot_token, chat_id, mainPc, jobs, queue, workers, sem,
                cancelled_jobs, pending_approvals, buttons, notif, nextId,
                presses, cancels, gate, lifetime, killedRunning, warned, foreign>>
infVars == <<r_exact, r_sem, embed_backend, exact, sem_index, sem_rec, stats,
             clock, ledger, nOps, last>>

\* the state of monitor.py
VARIABLES
    mon_min,        \* Monitor._min_severity
    mon_dry,        \* Monitor._dry_run
    mon_redis,      \* DedupeStore._redis is not None
    mon_seen,       \* DedupeStore._seen
    mon_keys,       \* Redis keys "monitor:seen:<fingerprint>"
    mon_pending,    \* run_once: the alerts of this pass not yet processed
    mon_sent,       \* alerts for which _process_alert returned "sent"
    mon_delivered,  \* alerts the notifier delivered to the operator
    mon_passes      \* passes begun so far

monVars == <<mon_min, mon_dry, mon_redis, mon_seen, mon_keys, mon_pending,
             mon_sent, mon_delivered, mon_passes>>

\* a completed job's findings and the report sent for them
VARIABLES
    rep_findings,   \* all_findings of run_skill when the skill completes
    rep_report      \* the report Notifier.send_report has sent, if any

repVars == <<rep_findings, rep_report>>

\* a call of planner.plan_goal and what it sees of its environment
VARIABLES
    pl_goal,        \* the goal string, a sequence of characters
    pl_llm,         \* litellm is importable and GOOGLE_API_KEY is set
    pl_index,       \* awesome_skills._skills_indexCache once loaded
    pl_out          \* what plan_goal returned, if it was called

planVars == <<pl_goal, pl_llm, pl_index, pl_out>>

\* the plan proposals of tg_bot.py
VARIABLES
    orch_plans,     \* tg_bot._pending_plans: approval id -> plan
    orch_buttons,   \* callback payloads of the proposals sent, each with
                    \*   the approval id of its proposal
    orch_proposed,  \* history: approval id -> the plan that was proposed
    orch_answered,  \* history: the proposals a press was handled for
    orch_enqueued,  \* history: the calls of the enqueue callback
    orch_n,         \* orchestrate commands received so far
    orch_presses,   \* presses on proposal keyboards handled so far
    orch_last       \* the payload of the last press handled

orchVars == <<orch_plans, orch_buttons, orch_proposed, orch_answered,
              orch_enqueued, orch_n, orch_presses, orch_last>>

\* the reply command of tg_bot.py
VARIABLES
    reply_n,        \* reply commands received so far
    reply_out       \* history: approval id of each reply command -> what
                    \*   request_approval returned to it, if it has

replyVars == <<reply_n, reply_out>>

\* history of a shutdown
VARIABLES
    atStop          \* the workers that were inside run_skill when the stop
                    \*   event was set, each with the step it was at

stopVars == <<atStop>>

\* callers of Cache.store in separate processes on one Redis
VARIABLES
    storing,        \* per process: where it is inside store, and its locals
    st_n            \* calls of store begun so far

concVars == <<storing, st_n>>

\* what the steps of run_skill leave behind
VARIABLES
    results,        \* history: <<job, step>> -> what call_mcp_tool returned
                    \*   to that step, one entry per call
    artifacts,      \* <<job, output name>> of the files _persist_parquet wrote
    context,        \* <<job, key>> of the keys the steps added to the
                    \*   job's context
    warnings        \* <<job, step>> -> warning notifications sent for it

stepVars == <<results, artifacts, context, warnings>>

\* Daemon.shutdown and the places that call it
VARIABLES
    sd_notifier,    \* Daemon._notifier is set (Telegram is configured)
    sd_once,        \* Daemon.once
    sd_win32,       \* sys.platform == "win32": no signal handlers
    sd_main,        \* main: "run" inside run_until_complete(daemon.run()),
                    \*   "keyboard" inside the KeyboardInterrupt handler,
                    \*   "closed" once the loop is closed
    sd_run,         \* Daemon.run: "boot", "loop", "finally", "returned"
    sd_calls,       \* the calls of shutdown() made so far, each with its
                    \*   caller and where it is
    sd_stop,        \* Daemon._stop_event is set
    sd_bot,         \* Daemon._bot_task: "none", "running", "cancelling",
                    \*   "done"
    sd_cancels,     \* history: calls of _bot_task.cancel()
    sd_offline,     \* history: "daemon offline" notifications sent
    sd_signals      \* SIGINT / SIGTERM received so far

downVars == <<sd_notifier, sd_once, sd_win32, sd_main, sd_run, sd_calls,
              sd_stop, sd_bot, sd_cancels, sd_offline, sd_signals>>

\* a call of data.suggest_next_from_data
VARIABLES
    sug_agg,        \* what DuckStore.aggregate returns for the job
    sug_called,     \* suggest_next_from_data has returned
    sug_out         \* the list it returned

sugVars == <<sug_agg, sug_called, sug_out>>
extraVars == <<concVars, stepVars, downVars, sugVars>>
baseAux == <<monVars, repVars, planVars, orchVars, replyVars, stopVars>>
auxVars == <<baseAux, extraVars>>
vars == <<infVars, daemonVars, auxVars>>

\* the ids live in the semantic tier's records
RecIds == DOMAIN sem_rec

\* Faults of the key-value store during one call: which Redis command
\* raises.  eget / eset: the exact tier's get / setex; sem: the position of
\* the failing command inside the semantic tier's try block (0 = none).
\*   _check_semantic : 1 = any read
\*   _store_semantic : 1 llen, 2 lpop, 3 delete, 4 hset, 5 expire, 6 rpush
NoFault == [eget |-> FALSE, eset |-> FALSE, sem |-> 0]
Down == [eget |-> TRUE, eset |-> TRUE, sem |-> 1]
Faults == { NoFault, [NoFault EXCEPT !.eget = TRUE],
            [NoFault EXCEPT !.eset = TRUE], Down }
          \cup { [NoFault EXCEPT !.sem = k] : k \in 1..6 }

\* cache.py:288-296 (mutant: the exact tier finds nothing)
_check_exact_blind(prompt, f) == None
_check_exact(prompt, f) ==
    IF ~r_exact THEN None
    ELSE IF f.eget THEN None
    ELSE exact[prompt]

\* cache.py:298-304; the new contents of DB 0 (mutant: the write is lost;
\* mutant: the write is made whatever the client and the command do)
_store_exact_lost(prompt, response, f) == exact
_store_exact_unguarded(prompt, response, f) ==
    [exact EXCEPT ![prompt] = response]
_store_exact(prompt, response, f) ==
    IF ~r_exact THEN exact
    ELSE IF f.eset THEN exact
    ELSE [exact EXCEPT ![prompt] = response]

\* cache.py:322-333  the scan for the best entry: entries whose record is
\* gone are skipped, a later entry replaces the best only if strictly nearer
RECURSIVE BestEntry(_, _, _, _)
BestEntry(q, ids, i, best) ==
    IF i > Len(ids) THEN best
    ELSE LET id == ids[i] IN
         IF id \notin RecIds THEN BestEntry(q, ids, i + 1, best)
         ELSE LET v == sem_rec[id].vec IN
              IF best = NoId
              THEN IF CosPos(q, v) THEN BestEntry(q, ids, i + 1, id)
                                   ELSE BestEntry(q, ids, i + 1, best)
              ELSE IF CosGT(q, v, sem_rec[best].vec)
                   THEN BestEntry(q, ids, i + 1, id)
                   ELSE BestEntry(q, ids, i + 1, best)

\* cache.py:308-346
_check_semantic(prompt, f) ==
    IF ~r_sem \/ embed_backend = "none" THEN None
    ELSE IF f.sem # 0 THEN None
    ELSE IF Len(sem_index) = 0 THEN None
    ELSE LET q    == Embed(prompt)
             best == BestEntry(q, sem_index, 1, NoId)
         IN  IF best # NoId /\ CosGE(q, sem_rec[best].vec, THRESHOLD_PCT)
             THEN sem_rec[best].response
             ELSE None

\* cache.py:364  entry_id = sha256(prompt + time.time())[:16]
EntryId(prompt) == <<prompt, clock>>

\* dropping / adding a key of a function
DropKey(fn, k) == [x \in (DOMAIN fn) \ {k} |-> fn[x]]
PutKey(fn, k, v) == [x \in (DOMAIN fn) \cup {k} |-> IF x = k THEN v ELSE fn[x]]

\* cache.py:358-359
IndexFull(index) == Len(index) >= CACHE_SEMANTIC_MAX_ENTRIES

\* the faults that can occur in _store_semantic: lpop and delete are only
\* issued when the index is full
StoreFaultApplies(f) ==
    f.sem \in {2, 3} => (r_sem /\ embed_backend # "none" /\ IndexFull(sem_index))

\* cache.py:348-374  the new <<sem_index, sem_rec>>
_store_semantic(prompt, response, f) ==
    IF ~r_sem \/ embed_backend = "none" THEN <<sem_index, sem_rec>>
    ELSE
    LET k      == f.sem
        done(n) == k = 0 \/ k > n          \* command n was executed
        full   == done(1) /\ IndexFull(sem_index)
        popped == full /\ done(2) /\ Len(sem_index) > 0
        old_id == IF popped THEN Head(sem_index) ELSE NoId
        idx1   == IF popped THEN Tail(sem_index) ELSE sem_index
        rec1   == IF popped /\ done(3) /\ old_id \in DOMAIN sem_rec
                  THEN DropKey(sem_rec, old_id) ELSE sem_rec
        id     == EntryId(prompt)
        rec2   == IF done(4)
                  THEN PutKey(rec1, id, [vec |-> Embed(prompt),
                                         response |-> response,
                                         prompt |-> prompt,
                                         ttl |-> done(5)])
                  ELSE rec1
        idx2   == IF done(6) THEN Append(idx1, id) ELSE idx1
    IN  <<idx2, rec2>>

Bump(field) == [stats EXCEPT ![field] = @ + 1]

\* cache.py:212-237  Cache.check on the current state: what it returns, the
\* tier that answered, and the writes it makes
CheckOut(prompt, f) ==
    LET e == _check_exact(prompt, f)
        s == _check_semantic(prompt, f)
    IN  IF e # None
        THEN [ret |-> e, tier |-> "exact", exact |-> exact,
              stats |-> Bump("hits_exact")]
        ELSE IF s # None
        THEN [ret |-> s, tier |-> "semantic",
              exact |-> _store_exact(prompt, s, f),
              stats |-> Bump("hits_semantic")]
        ELSE [ret |-> None, tier |-> "miss", exact |-> exact,
              stats |-> Bump("misses")]

\* what the last call was and what it gave back; clean: no command of the
\* store and no write of the ledger failed during the call; down: every
\* command of the store failed during the call; exhausted: every provider
\* of the rotation failed on each of its retries
Called(op, prompt, ret, tier, clean, attempts, raised, exhausted, down) ==
    [op |-> op, prompt |-> prompt, ret |-> ret, tier |-> tier,
     clean |-> clean,
     attempts |-> attempts, raised |-> raised, exhausted |-> exhausted,
     down |-> down, tried |-> <<>>]

\* a call of check(prompt), from any caller (cache.py:394-402)
Check(prompt, f) ==
    /\ UNCHANGED <<daemonVars, auxVars>>
    /\ nOps < MaxOps
    /\ f.sem \in {0, 1}
    /\ LET c == CheckOut(prompt, f)
       IN  /\ stats' = c.stats
           /\ exact' = c.exact
           /\ last' = Called("check", prompt, c.ret, c.tier, f = NoFault,
                             0, FALSE, FALSE, f = Down)
    /\ nOps' = nOps + 1
    /\ UNCHANGED <<r_exact, r_sem, embed_backend, sem_index, sem_rec, clock,
                   ledger>>

\* cache.py:239-245  Cache.store
Store(prompt, response, f) ==
    /\ UNCHANGED <<daemonVars, auxVars>>
    /\ nOps < MaxOps
    /\ StoreFaultApplies(f)
    /\ exact' = _store_exact(prompt, response, f)
    /\ LET s == _store_semantic(prompt, response, f)
       IN  sem_index' = s[1] /\ sem_rec' = s[2]
    /\ clock' = clock + 1
    /\ nOps' = nOps + 1
    /\ last' = Called("store", prompt, None, "none", f = NoFault, 0,
                    FALSE, FALSE, f = Down)
    /\ UNCHANGED <<r_exact, r_sem, embed_backend, stats, ledger>>

\* cache.py:302  setex(key, CACHE_EXACT_TTL, ...): the key expires
ExpireExact(prompt) ==
    /\ UNCHANGED <<daemonVars, auxVars>>
    /\ exact[prompt] # None
    /\ exact' = [exact EXCEPT ![prompt] = None]
    /\ last' = Called("expire", prompt, None, "none", TRUE, 0, FALSE,
                    FALSE, FALSE)
    /\ UNCHANGED <<r_exact, r_sem, embed_backend, sem_index, sem_rec, stats,
                   clock, nOps, ledger>>

\* cache.py:370  expire(key, CACHE_SEMANTIC_TTL): the record expires; the
\* list "sem:index" carries no TTL and keeps the id
ExpireSemantic(id) ==
    /\ UNCHANGED <<daemonVars, auxVars>>
    /\ id \in RecIds
    /\ sem_rec[id].ttl
    /\ sem_rec' = DropKey(sem_rec, id)
    /\ last' = Called("expire", id[1], None, "none", TRUE, 0, FALSE,
                    FALSE, FALSE)
    /\ UNCHANGED <<r_exact, r_sem, embed_backend, exact, sem_index, stats,
                   clock, nOps, ledger>>

(***************************************************************************)
(*                            inference.py                                 *)
(***************************************************************************)
\* number of ask calls explored in one behaviour of SpecAsk
MaxAsks == 2

\* Model names as sequences of pieces, so that Python's substring test
\* `key in model` is the infix test on sequences.
GEMINI_15_PRO == <<"gemini/gemini-1.5-pro">>
OR_GEMINI_PRO == <<"openrouter/google/gemini-pro">>
MISTRAL_7B    == <<"openrouter/mistralai/mistral-7b-instruct">>
MISTRAL_FREE  == <<"openrouter/mistralai/mistral-7b-instruct", ":free">>
LLAMA_FREE    == <<"openrouter/meta-llama/llama-3-8b-instruct", ":free">>

\* inference.py:68-70 (defaults of the environment)
PROVIDER_HIGH == GEMINI_15_PRO
PROVIDER_LOW  == MISTRAL_7B
PROVIDER_FREE == MISTRAL_FREE

\* inference.py:73-89
PROVIDERS ==
    [high |-> <<PROVIDER_HIGH, OR_GEMINI_PRO, PROVIDER_LOW>>,
     low  |-> <<PROVIDER_LOW, PROVIDER_FREE, LLAMA_FREE>>,
     free |-> <<PROVIDER_FREE, LLAMA_FREE, MISTRAL_7B>>]

\* the tiers callers pass: the three of PROVIDERS and one that is not
TierInputs == {"high", "low", "free", "ultra"}

\* inference.py:93-99  COST_PER_1M in dict order; rates in cents per 1M
\* tokens, so that costs are whole multiples of 1e-8 USD
COST_PER_1M ==
    << <<GEMINI_15_PRO, 350, 1050>>,
       <<OR_GEMINI_PRO,  50,  150>>,
       <<MISTRAL_7B,      7,    7>>,
       <<MISTRAL_FREE,    0,    0>>,
       <<LLAMA_FREE,      0,    0>> >>

\* Python's `key in model` for strings
IsInfix(key, model) ==
    \E i \in 0..(Len(model) - Len(key)) :
        SubSeq(model, i + 1, i + Len(key)) = key

\* inference.py:187-193  _estimate_cost, in units of 1e-8 USD
RECURSIVE EstimateFrom(_, _, _, _)
EstimateFrom(i, model, tokens_in, tokens_out) ==
    IF i > Len(COST_PER_1M) THEN 0
    ELSE IF IsInfix(COST_PER_1M[i][1], model)
         THEN tokens_in * COST_PER_1M[i][2] + tokens_out * COST_PER_1M[i][3]
         ELSE EstimateFrom(i + 1, model, tokens_in, tokens_out)

_estimate_cost(model, tokens_in, tokens_out) ==
    EstimateFrom(1, model, tokens_in, tokens_out)

\* what a provider reports for one successful completion: the text, the
\* usage, and response_cost (None when LiteLLM gives none)
Completions == { [text |-> "4", usage |-> <<12, 7>>, raw_cost |-> NoCost],
                 [text |-> "four", usage |-> <<12, 7>>, raw_cost |-> 1234] }

\* inference.py:261-271  the tail of _call_litellm
CallCost(model, usage, raw_cost) ==
    IF raw_cost # NoCost /\ raw_cost # 0 THEN raw_cost
    ELSE _estimate_cost(model, usage[1], usage[2])

\* inference.py:294-317  _ask_with_rotation with the first nfail attempts
\* raising: the loops over rotation and range(MAX_RETRIES)
\* tried: the calls of _call_litellm made so far, in order, each with its
\* model and whether it returned
\* (mutant: a provider is given up after its first failure)
RetriesLeft_none(attempt) == attempt < 1

\* inference.py:298  for attempt in range(MAX_RETRIES)
RetriesLeft(attempt) == attempt < MAX_RETRIES

RECURSIVE RotateFrom(_, _, _, _, _)
RotateFrom(rotation, m, attempt, nfail, tried) ==
    IF m > Len(rotation)
    THEN [ok |-> FALSE, model |-> NoModel, attempts |-> Len(tried),
          tried |-> tried]
    ELSE IF ~RetriesLeft(attempt)
    THEN RotateFrom(rotation, m + 1, 0, nfail, tried)
    ELSE IF Len(tried) < nfail
    THEN RotateFrom(rotation, m, attempt + 1, nfail,
                    Append(tried, [model |-> rotation[m], ok |-> FALSE]))
    ELSE [ok |-> TRUE, model |-> rotation[m], attempts |-> Len(tried) + 1,
          tried |-> Append(tried, [model |-> rotation[m], ok |-> TRUE])]

_ask_with_rotation(tier, nfail) ==
    RotateFrom(PROVIDERS[tier], 1, 0, nfail, <<>>)

\* inference.py:388
ProviderName(model) ==
    IF model = GEMINI_15_PRO THEN "gemini" ELSE "openrouter"

\* inference.py:361-368  the row of a cache hit (mutant: the hit is
\* logged with the tokens of the prompt that was saved)
HitRow_charged ==
    [provider |-> "cache", model |-> <<"cache">>, tokens_in |-> 12,
     tokens_out |-> 0, cost_usd |-> 0, cache_hit |-> TRUE]
HitRow ==
    [provider |-> "cache", model |-> <<"cache">>, tokens_in |-> 0,
     tokens_out |-> 0, cost_usd |-> 0, cache_hit |-> TRUE]

\* inference.py:389-396
MissRow(model, usage, cost) ==
    [provider |-> ProviderName(model), model |-> model,
     tokens_in |-> usage[1], tokens_out |-> usage[2], cost_usd |-> cost,
     cache_hit |-> FALSE]

\* inference.py:163-184  _log_tokens: one INSERT, errors swallowed
_log_tokens(row, logFail) == IF logFail THEN ledger ELSE Append(ledger, row)

\* the faults ask is explored with: the store healthy, or every command
\* of the call raising
AskFaults == { NoFault, Down }

\* inference.py:381, 315-317
ErrorText(tier) ==
    CASE tier = "high" -> "[Inference error: All providers in tier 'high' failed]"
      [] tier = "low"  -> "[Inference error: All providers in tier 'low' failed]"
      [] OTHER         -> "[Inference error: All providers in tier 'free' failed]"

\* how many attempts fail before one succeeds: none, one (a retry), all of
\* the first provider (the next one answers), all of every provider
AllFail == Len(PROVIDERS.low) * MAX_RETRIES
FailCounts == {0, 1, MAX_RETRIES, AllFail}

\* inference.py:371-381  the RuntimeError of _ask_with_rotation is caught
\* and the error text returned (mutant: the RuntimeError leaves ask)
RotationFailed_raises(tier) == [ret |-> "RuntimeError", raised |-> TRUE]
RotationFailed(tier) == [ret |-> ErrorText(tier), raised |-> FALSE]

\* inference.py:379-381  except RuntimeError: return the error text, before
\* the store and the ledger write (mutant: ask goes on after the failure)
ReturnsEarly_never(rot) == FALSE
ReturnsEarly(rot) == ~rot.ok

\* inference.py:324-402  ask
Ask(in, tier, skip_cache, f, nfail, text, usage, raw_cost, logFail) ==
    /\ UNCHANGED <<daemonVars, auxVars>>
    /\ nOps < MaxAsks
    /\ nOps' = nOps + 1
    /\ UNCHANGED <<r_exact, r_sem, embed_backend>>
    /\ IF tier \notin DOMAIN PROVIDERS
       THEN \* raise ValueError
            /\ last' = Called("ask", FullPrompt(in[1], in[2]), "ValueError",
                               "none", f = NoFault, 0, TRUE, FALSE, f = Down)
            /\ UNCHANGED <<exact, sem_index, sem_rec, stats, clock, ledger>>
       ELSE
       LET full == FullPrompt(in[1], in[2])
           c    == CheckOut(full, f)
           rot  == _ask_with_rotation(tier, nfail)
           cost == CallCost(rot.model, usage, raw_cost)
       IN  IF ~skip_cache /\ c.ret # None
           THEN \* cache hit
                /\ exact' = c.exact
                /\ stats' = c.stats
                /\ ledger' = _log_tokens(HitRow, logFail)
                /\ last' = Called("ask", full, c.ret, c.tier,
                                   f = NoFault /\ ~logFail, 0, FALSE, FALSE, f = Down)
                /\ UNCHANGED <<sem_index, sem_rec, clock>>
           ELSE IF ReturnsEarly(rot)
           THEN \* every provider failed
                /\ stats' = IF skip_cache THEN stats ELSE c.stats
                /\ last' = [Called("ask", full, RotationFailed(tier).ret,
                                    IF skip_cache THEN "skipped" ELSE "miss",
                                    f = NoFault, rot.attempts,
                                    RotationFailed(tier).raised, TRUE, f = Down)
                              EXCEPT !.tried = rot.tried]
                /\ UNCHANGED <<exact, sem_index, sem_rec, clock, ledger>>
           ELSE \* a provider answered
                /\ stats' = IF skip_cache THEN stats ELSE c.stats
                /\ IF skip_cache
                   THEN UNCHANGED <<exact, sem_index, sem_rec, clock>>
                   ELSE /\ exact' = _store_exact(full, text, f)
                        /\ LET s == _store_semantic(full, text, f)
                           IN  sem_index' = s[1] /\ sem_rec' = s[2]
                        /\ clock' = clock + 1
                /\ ledger' = _log_tokens(MissRow(rot.model, usage, cost), logFail)
                /\ last' = [Called("ask", full, text,
                                    IF skip_cache THEN "skipped" ELSE "miss",
                                    f = NoFault /\ ~logFail, rot.attempts,
                                    FALSE, FALSE, f = Down)
                              EXCEPT !.tried = rot.tried]

(***************************************************************************)
(*                       telegram.py and daemon.py                         *)
(***************************************************************************)
\* A string that is cut at ":" is a sequence of pieces, each piece a tuple
\* of strings: "suggest_" + id is one piece, "cancel:" + id is two.
JobIdStr(j) == ToString(j)

\* daemon.py:511   approval_id = f"suggest_{job.id}"
SuggestId(j) == << <<"suggest_", JobIdStr(j)>> >>

\* telegram.py:336  the key cmd_cancel looks up, f"cancel:{job_id}"
CancelKey(j) == << <<"cancel">>, <<JobIdStr(j)>> >>

\* telegram.py:391-401  callback_data of the buttons of one gate
ButtonPayloads(approval_id, choices) ==
    IF choices # <<>>
    THEN { << <<"choice">> >> \o approval_id \o << <<choices[k]>> >> :
               k \in 1..Len(choices) }
         \cup { << <<"deny">> >> \o approval_id }
    ELSE { << <<"approve">> >> \o approval_id, << <<"deny">> >> \o approval_id }

\* telegram.py:428  parts = data.split(":", 2)
SplitMax2(data) ==
    IF Len(data) <= 2 THEN [k \in 1..Len(data) |-> <<data[k]>>]
    ELSE << <<data[1]>>, <<data[2]>>, SubSeq(data, 3, Len(data)) >>

\* asyncio.Future: the results set on it, none while it is pending
Unresolved == <<>>
NoChoice == <<>>
Outcome(action, choice) == [action |-> action, choice |-> choice]

\* the job statuses (daemon.py:101-106)
Terminal == {"done", "failed", "cancelled"}

\* JSON null where a string is expected
JsonNull == "<null>"

\* Skill definitions (skills/<name>.yaml, read by load_skill): the tool of
\* each step.  recon_osint is the chain of daemon.py:252-256 from its
\* scanner on; vuln_scan has no gate; any other name has no file.
SkillNames == {"recon_osint", "vuln_scan", "no_such_skill"}
SkillExists(name) == name \in {"recon_osint", "vuln_scan"}
SkillSteps(name) ==
    CASE name = "recon_osint" -> <<"nuclei", "suggest_next">>
      [] name = "vuln_scan"   -> <<"nuclei">>
      [] OTHER                -> <<>>

\* What the tool server answers (daemon.py:229-240): success with the
\* severities of the vulnerabilities it lists, or no success (HTTP error
\* status, transport error)
ToolResults(tool) ==
    { [success |-> FALSE, data |-> <<>>],
      [success |-> TRUE, data |-> <<"high">>],
      [success |-> TRUE, data |-> <<JsonNull>>] }

\* daemon.py:437-467  _extract_findings
_extract_findings(tool, result) ==
    [k \in 1..Len(result.data) |->
        [tool |-> tool, severity |-> result.data[k], title |-> "T1"]]

\* f.get("severity", "info").lower() raises on a value that is no string
\* (daemon.py:481, telegram.py:527)
LowerRaises(findings) ==
    \E k \in 1..Len(findings) : findings[k].severity = JsonNull

\* daemon.py:481-500  the choices offered by _handle_suggest_next
Suggestions(findings) ==
    LET has_high == \E k \in 1..Len(findings) :
                        findings[k].severity \in {"critical", "high"}
        has_subs == \E k \in 1..Len(findings) : findings[k].tool = "amass"
        s1 == IF has_high THEN <<"nuclei_deep">> ELSE <<>>
        s2 == IF has_subs THEN <<"subdomain_enum">> ELSE <<>>
    IN  IF s1 \o s2 = <<>> THEN <<"manual_review">> ELSE s1 \o s2


\* daemon.py:623-626, 685  the real Notifier, else _NullNotifier
RealNotifier == bot_token /\ chat_id

JobIds == DOMAIN jobs

\* daemon.py:109-122  Job.__init__
NewJob(skill) ==
    [skill |-> skill, status |-> "pending", started_at |-> FALSE,
     finished_at |-> FALSE, result |-> [set |-> FALSE, findings |-> <<>>],
     error |-> FALSE]

NoWorker == [pc |-> "none", i |-> 0, findings |-> <<>>]
NoNotif == [report |-> 0, failed |-> 0, cancelled |-> 0]
NoGate == [written |-> <<>>, returned |-> <<>>, cancelAtWait |-> FALSE]

\* daemon.py:597-603  Daemon.enqueue
DoEnqueue(skill) ==
    /\ nextId <= MaxJobs
    /\ jobs' = PutKey(jobs, nextId, NewJob(skill))
    /\ workers' = PutKey(workers, nextId, NoWorker)
    /\ notif' = PutKey(notif, nextId, NoNotif)
    /\ gate' = PutKey(gate, nextId, NoGate)
    /\ queue' = Append(queue, nextId)
    /\ nextId' = nextId + 1

\* daemon.py:796-803  main: --enqueue SKILL:TARGET seeds the queue
Preseed(skill) ==
    /\ mainPc = "boot"
    /\ queue = <<>>
    /\ DoEnqueue(skill)
    /\ UNCHANGED <<once, bot_token, chat_id, mainPc, sem, cancelled_jobs,
                   pending_approvals, buttons, presses, cancels, lifetime,
                   killedRunning, warned, foreign>>
    /\ UNCHANGED <<infVars, auxVars>>

\* daemon.py:611-645  Daemon.run entering its loop after start()
Start ==
    /\ mainPc = "boot"
    /\ ~once
    /\ mainPc' = "loop"
    /\ UNCHANGED <<once, bot_token, chat_id, jobs, queue, workers, sem,
                   cancelled_jobs, pending_approvals, buttons, notif, nextId,
                   presses, cancels, gate, lifetime, killedRunning, warned, foreign>>
    /\ UNCHANGED <<infVars, auxVars>>

\* the workers inside run_skill (holding the semaphore) and their steps
Executing(W) ==
    [j \in {k \in DOMAIN W : W[k].pc \in {"tool", "approval_send",
                                          "approval_wait", "report"}}
       |-> W[j].i]

\* (mutant: a tick takes the whole queue and starts only its first job)
Spawned_head(q) ==
    [j \in DOMAIN workers |->
        IF q # <<>> /\ q[1] = j
        THEN [workers[j] EXCEPT !.pc = "waitsem"]
        ELSE workers[j]]

\* daemon.py:668-680  the tasks _drain_queue creates for the queued jobs
Spawned(q) ==
    [j \in DOMAIN workers |->
        IF \E k \in 1..Len(q) : q[k] = j
        THEN [workers[j] EXCEPT !.pc = "waitsem"]
        ELSE workers[j]]

\* daemon.py:643-654  Daemon.run with --once: start(), one _drain_queue,
\* `if self.once and self._queue.empty(): break`, and shutdown() begins;
\* no await lies between the drain and the break
RunOnce ==
    /\ mainPc = "boot"
    /\ once
    /\ mainPc' = "stopping"
    /\ workers' = Spawned(queue)
    /\ queue' = <<>>
    /\ atStop' = Executing(workers)
    /\ UNCHANGED <<once, bot_token, chat_id, jobs, sem,
                   cancelled_jobs, pending_approvals, buttons, notif, nextId,
                   presses, cancels, gate, lifetime, killedRunning, warned,
                   foreign>>
    /\ UNCHANGED <<infVars, monVars, repVars, planVars, orchVars, replyVars, extraVars>>

\* daemon.py:755-766, 709-718  SIGINT / SIGTERM: shutdown() sets the stop
\* event and cancels the bot task; the loop of run() ends at its next wake-up
Terminate ==
    /\ mainPc = "loop"
    /\ mainPc' = "stopping"
    /\ atStop' = Executing(workers)
    /\ UNCHANGED <<once, bot_token, chat_id, jobs, queue, workers,
                   sem, cancelled_jobs, pending_approvals, buttons, notif,
                   nextId, presses, cancels, gate, lifetime, killedRunning,
                   warned, foreign>>
    /\ UNCHANGED <<infVars, monVars, repVars, planVars, orchVars, replyVars, extraVars>>

\* daemon.py:664-666, 719-726, 807-813  shutdown() has awaited the bot task
\* and the "offline" message, run() returns, main closes the event loop and
\* the process ends: nothing awaits the worker tasks, and the tasks that
\* have not finished by then are never resumed
Exit ==
    /\ mainPc = "stopping"
    /\ mainPc' = "exited"
    /\ UNCHANGED atStop
    /\ UNCHANGED <<once, bot_token, chat_id, jobs, queue, workers,
                   sem, cancelled_jobs, pending_approvals, buttons, notif,
                   nextId, presses, cancels, gate, lifetime, killedRunning,
                   warned, foreign>>
    /\ UNCHANGED <<infVars, monVars, repVars, planVars, orchVars, replyVars, extraVars>>

StopInit == atStop = <<>>

\* telegram.py:139-169  cmd_recon from the allowlisted chat
CmdRecon ==
    /\ mainPc = "loop"
    /\ bot_token
    /\ DoEnqueue("recon_osint")
    /\ UNCHANGED <<once, bot_token, chat_id, mainPc, sem, cancelled_jobs,
                   pending_approvals, buttons, presses, cancels, lifetime,
                   killedRunning, warned, foreign>>
    /\ UNCHANGED <<infVars, auxVars>>

\* daemon.py:668-680  _drain_queue at a heartbeat: a task per queued job
DrainQueue ==
    /\ mainPc = "loop"
    /\ queue # <<>>
    /\ workers' = Spawned(queue)
    /\ queue' = <<>>
    /\ UNCHANGED <<once, bot_token, chat_id, mainPc, jobs, sem, cancelled_jobs,
                   pending_approvals, buttons, notif, nextId, presses,
                   cancels, gate, lifetime, killedRunning, warned, foreign>>
    /\ UNCHANGED <<infVars, auxVars>>

\* daemon.py:276-310  what run_skill does from the head of step i up to its
\* next await that suspends: the cancel check, then the step's tool
RECURSIVE HeadOut(_, _, _, _)
HeadOut(steps, i, findings, is_cancelled) ==
    IF i > Len(steps) THEN "done"
    ELSE IF is_cancelled THEN "cancelled"
    ELSE IF steps[i] = "suggest_next"
         THEN IF LowerRaises(findings) THEN "crash"
              ELSE IF RealNotifier THEN "approval"
              ELSE HeadOut(steps, i + 1, findings, is_cancelled)
         ELSE "tool"

RECURSIVE HeadStep(_, _, _)
HeadStep(steps, i, findings) ==
    IF i > Len(steps) THEN i
    ELSE IF steps[i] = "suggest_next" /\ ~LowerRaises(findings) /\ ~RealNotifier
         THEN HeadStep(steps, i + 1, findings)
         ELSE i

\* (mutant: the exception handler marks the job failed and tells nobody)
Crashed_silent(j, J, S, P) ==
    /\ jobs' = [J EXCEPT ![j].status = "failed", ![j].error = TRUE]
    /\ workers' = [workers EXCEPT ![j].pc = "exited"]
    /\ sem' = S + 1
    /\ pending_approvals' = P
    /\ UNCHANGED <<cancelled_jobs, notif>>

\* daemon.py:687-692  _run_job: except Exception, then the semaphore is
\* released
Crashed(j, J, S, P) ==
    /\ jobs' = [J EXCEPT ![j].status = "failed", ![j].error = TRUE]
    /\ workers' = [workers EXCEPT ![j].pc = "exited"]
    /\ notif' = [notif EXCEPT ![j].failed = @ + 1]
    /\ sem' = S + 1
    /\ pending_approvals' = P
    /\ UNCHANGED cancelled_jobs

\* telegram.py:351-352  is_cancelled (mutant: the registry is never read)
is_cancelled_never(j) == FALSE
is_cancelled(j) == j \in cancelled_jobs

\* daemon.py:276-340  run_skill resumed at the head of step i with the
\* findings so far; J, S, P are the jobs, the semaphore and the pending
\* approvals as the resumed code left them
GoHead(j, i, findings, J, S, P) ==
    LET steps == SkillSteps(J[j].skill)
        out == HeadOut(steps, i, findings, is_cancelled(j))
        at == HeadStep(steps, i, findings)
    IN  CASE out = "done" ->
               /\ jobs' = [J EXCEPT ![j].status = "done",
                                    ![j].finished_at = TRUE,
                                    ![j].result = [set |-> TRUE,
                                                   findings |-> findings]]
               /\ workers' = [workers EXCEPT
                                ![j] = [pc |-> "report", i |-> at,
                                        findings |-> findings]]
               /\ sem' = S
               /\ pending_approvals' = P
               /\ UNCHANGED <<cancelled_jobs, notif>>
          [] out = "cancelled" ->
               /\ jobs' = [J EXCEPT ![j].status = "cancelled"]
               /\ cancelled_jobs' = cancelled_jobs \ {j}
               /\ notif' = [notif EXCEPT ![j].cancelled = @ + 1]
               /\ workers' = [workers EXCEPT
                                ![j] = [pc |-> "exited", i |-> i,
                                        findings |-> findings]]
               /\ sem' = S + 1
               /\ pending_approvals' = P
          [] out = "crash" -> Crashed(j, J, S, P)
          [] out = "approval" ->
               /\ jobs' = J
               /\ pending_approvals' = PutKey(P, SuggestId(j), Unresolved)
               /\ workers' = [workers EXCEPT
                                ![j] = [pc |-> "approval_send", i |-> at,
                                        findings |-> findings]]
               /\ sem' = S
               /\ UNCHANGED <<cancelled_jobs, notif>>
          [] out = "tool" ->
               /\ jobs' = J
               /\ workers' = [workers EXCEPT
                                ![j] = [pc |-> "tool", i |-> at,
                                        findings |-> findings]]
               /\ sem' = S
               /\ pending_approvals' = P
               /\ UNCHANGED <<cancelled_jobs, notif>>

\* daemon.py:683  async with self._semaphore
\* (mutant: entering without waiting for a free slot)
SemaphoreFree_always == TRUE
SemaphoreFree == sem > 0

\* (mutant: a free slot goes to any of the waiting tasks)
NextWaiter_any(j) == TRUE

\* daemon.py:676-680, 683  the tasks were created in the order of the queue,
\* job ids rising, and run their first step in that order; the semaphore
\* of asyncio hands a free slot to the task that has waited longest
NextWaiter(j) ==
    \A k \in JobIds : workers[k].pc = "waitsem" => k >= j

\* daemon.py:682-692, 258-274  _run_job takes the semaphore and run_skill
\* starts: RUNNING, load_skill, and on to the first step
Acquire(j) ==
    /\ j \in JobIds
    /\ workers[j].pc = "waitsem"
    /\ SemaphoreFree
    /\ NextWaiter(j)
    /\ LET J == [jobs EXCEPT ![j].status = "running", ![j].started_at = TRUE]
       IN  IF ~SkillExists(jobs[j].skill)
           THEN /\ jobs' = [J EXCEPT ![j].status = "failed", ![j].error = TRUE]
                /\ workers' = [workers EXCEPT ![j].pc = "exited"]
                /\ notif' = [notif EXCEPT ![j].failed = @ + 1]
                /\ sem' = sem
                /\ UNCHANGED <<cancelled_jobs, pending_approvals>>
           ELSE GoHead(j, 1, <<>>, J, sem - 1, pending_approvals)
    /\ UNCHANGED <<once, bot_token, chat_id, mainPc, queue, buttons, nextId, presses,
                   cancels, gate, lifetime, killedRunning, warned, foreign>>
    /\ UNCHANGED <<infVars, auxVars>>

\* daemon.py:277, 252-256  step.get("output", "") of the step of a tool
StepOutput(tool) == IF tool = "nuclei" THEN "vulns" ELSE ""

\* (mutant: the output is written whatever the result says)
Persisted_always(tool, result) == StepOutput(tool) # ""

\* daemon.py:303-316  past the `continue` of a failed result:
\* `if output_key:` _persist_parquet
Persisted(tool, result) == result.success /\ StepOutput(tool) # ""

\* the value of fn at k, or a default
GetKey(fn, k, default) == IF k \in DOMAIN fn THEN fn[k] ELSE default

\* daemon.py:301-321  what step i of job j leaves behind once
\* call_mcp_tool has returned result
StepTrace(j, i, tool, result) ==
    /\ results' = PutKey(results, <<j, i>>,
                         Append(GetKey(results, <<j, i>>, <<>>), result))
    /\ artifacts' = IF Persisted(tool, result)
                    THEN artifacts \cup {<<j, StepOutput(tool)>>}
                    ELSE artifacts
    /\ context' = IF ~result.success THEN context
                  ELSE context
                       \cup (IF StepOutput(tool) # ""
                             THEN {<<j, <<StepOutput(tool)>> >>} ELSE {})
                       \cup {<<j, <<tool, "_result">> >>}
    /\ warnings' = IF result.success THEN warnings
                   ELSE PutKey(warnings, <<j, i>>,
                               GetKey(warnings, <<j, i>>, 0) + 1)

StepInit ==
    /\ results = <<>>
    /\ artifacts = {}
    /\ context = {}
    /\ warnings = <<>>

\* (mutant: a result without success is raised out of run_skill)
SoftFailure_raises(j) == Crashed(j, jobs, sem, pending_approvals)

\* daemon.py:303-310  a result without success: the warning is sent
\* (Notifier.send never raises), then `continue` to the next step
SoftFailure(j) ==
    GoHead(j, workers[j].i + 1, workers[j].findings, jobs, sem,
           pending_approvals)

\* daemon.py:301-321  call_mcp_tool answers: a soft failure or the findings
\* of the step, then the next step
ToolReturn(j, result) ==
    /\ j \in JobIds
    /\ workers[j].pc = "tool"
    /\ LET w == workers[j]
           tool == SkillSteps(jobs[j].skill)[w.i]
       IN  /\ result \in ToolResults(tool)
           /\ IF result.success
              THEN /\ GoHead(j, w.i + 1,
                             w.findings \o _extract_findings(tool, result),
                             jobs, sem, pending_approvals)
                   /\ UNCHANGED warned
              ELSE /\ SoftFailure(j)
                   /\ warned' = warned \cup {<<j, w.i>>}
           /\ StepTrace(j, w.i, tool, result)
    /\ UNCHANGED <<once, bot_token, chat_id, mainPc, queue, buttons, nextId, presses,
                   cancels, gate, lifetime, killedRunning, foreign>>
    /\ UNCHANGED <<infVars, baseAux, concVars, downVars, sugVars>>

\* telegram.py:404-409  await bot.send_message(...) of request_approval
\* returns, or raises (before or after Telegram delivered the keyboard);
\* the exception leaves request_approval, run_skill and reaches _run_job
SendOutcomes == {"sent", "raised", "raised_delivered"}
ApprovalSend(j, how) ==
    /\ j \in JobIds
    /\ workers[j].pc = "approval_send"
    /\ how \in SendOutcomes
    /\ buttons' = IF how = "raised" THEN buttons
                  ELSE buttons \cup ButtonPayloads(SuggestId(j),
                                       Suggestions(workers[j].findings))
    /\ IF how = "sent"
       THEN /\ workers' = [workers EXCEPT ![j].pc = "approval_wait"]
            /\ UNCHANGED <<jobs, sem, pending_approvals, cancelled_jobs, notif>>
       ELSE Crashed(j, jobs, sem, pending_approvals)
    /\ UNCHANGED <<once, bot_token, chat_id, mainPc, queue, nextId, presses,
                   cancels, gate, lifetime, killedRunning, warned, foreign>>
    /\ UNCHANGED <<infVars, auxVars>>

\* (mutant: the entry stays in the table when request_approval returns)
PopApproval_kept(P, approval_id) == P

\* telegram.py:418-419  finally: _pending_approvals.pop(approval_id, None)
PopApproval(P, approval_id) == DropKey(P, approval_id)

\* telegram.py:411-419, daemon.py:516-523  wait_for times out: the outcome
\* is timeout, the entry is popped, the skill goes on.  The deadline can also
\* pass after a result was set and before the waiting task has run again;
\* asyncio.wait_for then raises TimeoutError all the same (Python 3.12 on).
ApprovalTimeout(j) ==
    /\ j \in JobIds
    /\ workers[j].pc = "approval_wait"
    /\ gate' = [gate EXCEPT
                  ![j].returned = Append(@, Outcome("timeout", NoChoice))]
    /\ GoHead(j, workers[j].i + 1, workers[j].findings, jobs, sem,
              PopApproval(pending_approvals, SuggestId(j)))
    /\ UNCHANGED <<once, bot_token, chat_id, mainPc, queue, buttons, nextId, presses,
                   cancels, lifetime, killedRunning, warned, foreign>>
    /\ UNCHANGED <<infVars, auxVars>>

\* telegram.py:411-419, daemon.py:516-523  wait_for returns the result that
\* was set on the future
ApprovalReturn(j) ==
    /\ j \in JobIds
    /\ workers[j].pc = "approval_wait"
    /\ pending_approvals[SuggestId(j)] # Unresolved
    /\ gate' = [gate EXCEPT
                  ![j].returned = Append(@, pending_approvals[SuggestId(j)][1])]
    /\ GoHead(j, workers[j].i + 1, workers[j].findings, jobs, sem,
              PopApproval(pending_approvals, SuggestId(j)))
    /\ UNCHANGED <<once, bot_token, chat_id, mainPc, queue, buttons, nextId, presses,
                   cancels, lifetime, killedRunning, warned, foreign>>
    /\ UNCHANGED <<infVars, auxVars>>

\* telegram.py:437, 444, 452, 337  `if future and not future.done()`
\* (mutant: set_result without looking at done())
FutureWritable_always(P, approval_id) == approval_id \in DOMAIN P
FutureWritable(P, approval_id) ==
    approval_id \in DOMAIN P /\ P[approval_id] = Unresolved

\* the jobs whose gate has this approval id
GateOwners(approval_id) == {j \in DOMAIN gate : SuggestId(j) = approval_id}

\* future.set_result(outcome) behind the done() check, with its history
SetResult(approval_id, outcome) ==
    IF FutureWritable(pending_approvals, approval_id)
    THEN /\ pending_approvals' =
               [pending_approvals EXCEPT ![approval_id] = <<outcome>>]
         /\ gate' = [j \in DOMAIN gate |->
                       IF j \in GateOwners(approval_id)
                       THEN [gate[j] EXCEPT !.written = Append(@, outcome)]
                       ELSE gate[j]]
    ELSE UNCHANGED <<pending_approvals, gate>>

\* telegram.py:427-458  _handle_callback from the split of the payload on
CallbackBody(data) ==
    LET parts == SplitMax2(data)
        action == parts[1]
    IN  IF action \in {<< <<"approve">> >>, << <<"deny">> >>}
           /\ Len(parts) >= 2
        THEN SetResult(parts[2], Outcome(action[1][1], NoChoice))
        ELSE IF action = << <<"choice">> >> /\ Len(parts) >= 3
        THEN SetResult(parts[2], Outcome("choice", parts[3]))
        ELSE UNCHANGED <<pending_approvals, gate>>

\* telegram.py:422-458  _handle_callback: the operator presses a button of a
\* keyboard the bot sent
HandleCallback(data) ==
    /\ mainPc = "loop"
    /\ bot_token
    /\ presses < MaxPresses
    /\ data \in buttons
    /\ presses' = presses + 1
    /\ CallbackBody(data)
    /\ UNCHANGED <<once, bot_token, chat_id, mainPc, jobs, queue, workers, sem,
                   cancelled_jobs, buttons, notif, nextId, cancels, lifetime,
                   killedRunning, warned, foreign>>
    /\ UNCHANGED <<infVars, auxVars>>

\* telegram.py:64, 101-109  _is_allowed: no TELEGRAM_CHAT_ID, no restriction
Senders == {"operator", "stranger"}
_is_allowed(sender) == ~chat_id \/ sender = "operator"

\* telegram.py:123-124, 140-141, 325-326, 112-116  a command sent from another
\* chat than the allowlisted one: "Unauthorized." and a warning in the log
StrangerCommand(cmd) ==
    /\ mainPc = "loop"
    /\ bot_token
    /\ foreign < MaxForeign
    /\ cmd \in {"recon", "cancel", "status"}
    /\ ~_is_allowed("stranger")
    /\ foreign' = foreign + 1
    /\ UNCHANGED <<once, bot_token, chat_id, mainPc, jobs, queue, workers, sem,
                   cancelled_jobs, pending_approvals, buttons, notif, nextId,
                   presses, cancels, gate, lifetime, killedRunning, warned>>
    /\ UNCHANGED <<infVars, auxVars>>

\* telegram.py:422-458, 612  a callback query sent from another chat than
\* the allowlisted one, carrying the payload of a button: _handle_callback
\* does not call _is_allowed
StrangerCallback(data) ==
    /\ mainPc = "loop"
    /\ bot_token
    /\ foreign < MaxForeign
    /\ data \in buttons
    /\ ~_is_allowed("stranger")
    /\ foreign' = foreign + 1
    /\ CallbackBody(data)
    /\ UNCHANGED <<once, bot_token, chat_id, mainPc, jobs, queue, workers, sem,
                   cancelled_jobs, buttons, notif, nextId, presses, cancels,
                   lifetime, killedRunning, warned>>
    /\ UNCHANGED <<infVars, auxVars>>

\* telegram.py:324-345  cmd_cancel <job_id> from the allowlisted chat
CmdCancel(j) ==
    /\ mainPc = "loop"
    /\ bot_token
    /\ cancels < MaxCancels
    /\ j \in JobIds
    /\ cancels' = cancels + 1
    /\ LET atWait == workers[j].pc = "approval_wait"
                     /\ pending_approvals[SuggestId(j)] = Unresolved
           mark(g) == [g EXCEPT ![j].cancelAtWait = @ \/ atWait]
       IN  IF FutureWritable(pending_approvals, CancelKey(j))
           THEN /\ pending_approvals' =
                      [pending_approvals EXCEPT
                         ![CancelKey(j)] = <<Outcome("cancel", NoChoice)>>]
                /\ gate' = mark([k \in DOMAIN gate |->
                              IF k \in GateOwners(CancelKey(j))
                              THEN [gate[k] EXCEPT !.written =
                                      Append(@, Outcome("cancel", NoChoice))]
                              ELSE gate[k]])
                /\ UNCHANGED cancelled_jobs
           ELSE /\ cancelled_jobs' = cancelled_jobs \cup {j}
                /\ gate' = mark(gate)
                /\ UNCHANGED pending_approvals
    /\ UNCHANGED <<once, bot_token, chat_id, mainPc, jobs, queue, workers, sem,
                   buttons, notif, nextId, presses, lifetime, killedRunning, warned, foreign>>
    /\ UNCHANGED <<infVars, auxVars>>

\* telegram.py:512-551, daemon.py:329-340, 687-692  send_report after DONE:
\* it returns and run_skill ends, or it raises into _run_job
ReportSend(j) ==
    /\ j \in JobIds
    /\ workers[j].pc = "report"
    /\ IF RealNotifier /\ LowerRaises(workers[j].findings)
       THEN Crashed(j, jobs, sem, pending_approvals)
       ELSE /\ notif' = [notif EXCEPT ![j].report = @ + 1]
            /\ workers' = [workers EXCEPT ![j].pc = "exited"]
            /\ sem' = sem + 1
            /\ UNCHANGED <<jobs, pending_approvals, cancelled_jobs>>
    /\ UNCHANGED <<once, bot_token, chat_id, mainPc, queue, buttons, nextId, presses,
                   cancels, gate, lifetime, killedRunning, warned, foreign>>
    /\ UNCHANGED <<infVars, auxVars>>

\* The process is killed (SIGKILL, power loss) and started again: what
\* Daemon.__init__ (daemon.py:585-593) and the module globals
\* (telegram.py:72, 348) build, nothing being read back from a store
KillRestart ==
    /\ lifetime < MaxRestarts
    /\ lifetime' = lifetime + 1
    /\ killedRunning' = {j \in JobIds : jobs[j].status = "running"}
    /\ UNCHANGED <<warned, foreign>>
    /\ mainPc' = "boot"
    /\ jobs' = <<>>
    /\ workers' = <<>>
    /\ queue' = <<>>
    /\ sem' = MAX_CONCURRENT_JOBS
    /\ cancelled_jobs' = {}
    /\ pending_approvals' = <<>>
    /\ UNCHANGED <<once, bot_token, chat_id, buttons, notif, nextId, presses,
                   cancels, gate>>
    /\ UNCHANGED <<infVars, auxVars>>

(***************************************************************************)
(*                              monitor.py                                 *)
(***************************************************************************)
\* passes of one Monitor, and alerts one pass fetches
MaxPasses == 2
MaxFeed == 2

\* monitor.py:110
_SEVERITY_ORDER == <<"critical", "high", "medium", "low", "info">>

\* list.index: the position of x in seq, 0 where Python raises ValueError
IndexOf(seq, x) ==
    IF \E k \in 1..Len(seq) : seq[k] = x
    THEN CHOOSE k \in 1..Len(seq) :
             seq[k] = x /\ \A m \in 1..(k - 1) : seq[m] # x
    ELSE 0

\* monitor.py:210-215  _min_severity_met
_min_severity_met(severity, minimum) ==
    /\ IndexOf(_SEVERITY_ORDER, severity) # 0
    /\ IndexOf(_SEVERITY_ORDER, minimum) # 0
    /\ IndexOf(_SEVERITY_ORDER, severity) <= IndexOf(_SEVERITY_ORDER, minimum)

\* monitor.py:143-146  Alert._fingerprint: source, url and title, nothing else
Fingerprint(alert) == <<alert.source, alert.url, alert.title>>

\* what the feeds may return: the same item twice, or again with another
\* severity or from another source
FeedAlerts ==
    { [source |-> src, url |-> "https://x/1", title |-> "CVE-1",
       severity |-> sev] :
          src \in {"rss", "shodan"}, sev \in {"critical", "low"} }
FeedResults ==
    UNION { [1..n -> FeedAlerts] : n \in 0..MaxFeed }

\* monitor.py:250-258  DedupeStore.is_seen (mutant: only Redis is asked)
is_seen_redis_only(fingerprint, redisFails) ==
    mon_redis /\ ~redisFails /\ fingerprint \in mon_keys
is_seen(fingerprint, redisFails) ==
    \/ fingerprint \in mon_seen
    \/ mon_redis /\ ~redisFails /\ fingerprint \in mon_keys

\* monitor.py:545-556  run_once gathers the feeds
BeginPass(feed) ==
    /\ mon_pending = <<>>
    /\ mon_passes < MaxPasses
    /\ feed # <<>>
    /\ mon_passes' = mon_passes + 1
    /\ mon_pending' = feed
    /\ UNCHANGED <<mon_min, mon_dry, mon_redis, mon_seen, mon_keys, mon_sent,
                   mon_delivered>>
    /\ UNCHANGED <<infVars, daemonVars, repVars, planVars, orchVars, replyVars,
                   stopVars, extraVars>>

\* monitor.py:580-622  _process_alert on the next alert of the pass, then
\* _send_telegram; redisFails: the Redis command of this call raises,
\* sendOk: the notifier delivers the message
ProcessAlert(redisFails, sendOk) ==
    /\ mon_pending # <<>>
    /\ mon_pending' = Tail(mon_pending)
    /\ LET alert == Head(mon_pending)
           fp    == Fingerprint(alert)
       IN  IF ~_min_severity_met(alert.severity, mon_min)
           THEN UNCHANGED <<mon_seen, mon_keys, mon_sent, mon_delivered>>
           ELSE IF is_seen(fp, redisFails)
           THEN UNCHANGED <<mon_seen, mon_keys, mon_sent, mon_delivered>>
           ELSE /\ mon_seen' = mon_seen \cup {fp}
                /\ mon_keys' = IF mon_redis /\ ~redisFails
                               THEN mon_keys \cup {fp} ELSE mon_keys
                /\ mon_sent' = Append(mon_sent, alert)
                /\ mon_delivered' = IF ~mon_dry /\ sendOk
                                    THEN Append(mon_delivered, alert)
                                    ELSE mon_delivered
    /\ UNCHANGED <<mon_min, mon_dry, mon_redis, mon_passes>>
    /\ UNCHANGED <<infVars, daemonVars, repVars, planVars, orchVars, replyVars,
                   stopVars, extraVars>>

\* monitor.py:264  setex(key, 604_800, "1"): the key expires
ExpireSeenKey(fp) ==
    /\ fp \in mon_keys
    /\ mon_keys' = mon_keys \ {fp}
    /\ UNCHANGED <<mon_min, mon_dry, mon_redis, mon_seen, mon_pending,
                   mon_sent, mon_delivered, mon_passes>>
    /\ UNCHANGED <<infVars, daemonVars, repVars, planVars, orchVars, replyVars,
                   stopVars, extraVars>>

\* monitor.py:507-525  Monitor.__init__
MonitorInit(minimum, dry, redis) ==
    /\ mon_min = minimum
    /\ mon_dry = dry
    /\ mon_redis = redis
    /\ mon_seen = {}
    /\ mon_keys = {}
    /\ mon_pending = <<>>
    /\ mon_sent = <<>>
    /\ mon_delivered = <<>>
    /\ mon_passes = 0

(***************************************************************************)
(*            The report of a completed job (daemon.py, telegram.py)       *)
(***************************************************************************)
\* findings a job has accumulated when it completes
MaxFindings == 3

\* telegram.py:530  the severities send_report ranks, most severe first
REPORT_ORDER == <<"critical", "high", "medium", "low", "info">>

\* str.lower on the severities the tools are seen to report
Lower(sev) == IF sev = "HIGH" THEN "high" ELSE sev

\* the severities of the findings of a job, in the order its steps produced
\* them ("unknown" is in no ranking)
FindingSeverities == {"critical", "HIGH", "low", "info", "unknown"}
FindingLists == UNION { [1..n -> FindingSeverities] : n \in 0..MaxFindings }

\* telegram.py:530  the sort key: the index in the ranking, else 99
SevKey(sev) ==
    IF IndexOf(REPORT_ORDER, sev) # 0 THEN IndexOf(REPORT_ORDER, sev) ELSE 99

\* telegram.py:525-528  the keys of sev_counts in insertion order
RECURSIVE SevKeys(_, _, _)
SevKeys(findings, k, acc) ==
    IF k > Len(findings) THEN acc
    ELSE LET sev == Lower(findings[k])
         IN  SevKeys(findings, k + 1,
                     IF \E m \in 1..Len(acc) : acc[m] = sev
                     THEN acc ELSE Append(acc, sev))

\* telegram.py:525-528  sev_counts[sev]
SevCount(findings, sev) ==
    Cardinality({k \in 1..Len(findings) : Lower(findings[k]) = sev})

\* sorted(items, key): stable, so the keys of each rank keep their order
RECURSIVE SortedByKey(_, _)
SortedByKey(keys, ranks) ==
    IF ranks = <<>> THEN <<>>
    ELSE LET r == Head(ranks)
             bucket(i) == SevKey(keys[i]) = r
         IN  [i \in 1..Cardinality({i \in 1..Len(keys) : bucket(i)}) |->
                 keys[CHOOSE n \in 1..Len(keys) :
                        /\ bucket(n)
                        /\ Cardinality({m \in 1..n : bucket(m)}) = i]]
             \o SortedByKey(keys, Tail(ranks))

\* daemon.py:328  top_findings = all_findings[:5]
TopFindings(findings) ==
    SubSeq(findings, 1, IF Len(findings) < 5 THEN Len(findings) ELSE 5)

\* telegram.py:525-532  the severity line of the report
SeverityLine(findings) ==
    LET keys == SortedByKey(SevKeys(findings, 1, <<>>), <<1, 2, 3, 4, 5, 99>>)
    IN  [i \in 1..Len(keys) |-> <<keys[i], SevCount(findings, keys[i])>>]

NoReport == [emitted |-> FALSE, severity |-> <<>>, top |-> <<>>, total |-> 0]

\* daemon.py:328-336, telegram.py:512-551  the report of a completed job
EmitReport ==
    /\ ~rep_report.emitted
    /\ rep_report' = [emitted |-> TRUE,
                      severity |-> SeverityLine(rep_findings),
                      top |-> TopFindings(rep_findings),
                      total |-> Len(rep_findings)]
    /\ UNCHANGED rep_findings
    /\ UNCHANGED <<infVars, daemonVars, monVars, planVars, orchVars, replyVars,
                   stopVars, extraVars>>

ReportInit(findings) ==
    /\ rep_findings = findings
    /\ rep_report = NoReport

(***************************************************************************)
(*                     planner.py and awesome_skills.py                    *)
(***************************************************************************)
MaxWords == 2

LowerLetters == {"a", "b", "c", "d", "e", "f", "g", "h", "i", "j", "k", "l",
                 "m", "n", "o", "p", "q", "r", "s", "t", "u", "v", "w", "x",
                 "y", "z"}
UpperLetters == {"D", "F", "S"}
Digits == {"0", "1", "2", "3", "4", "5", "6", "7", "8", "9"}

\* str.lower() on one character and on a string
LowerChar(c) ==
    IF c = "D" THEN "d" ELSE IF c = "F" THEN "f" ELSE IF c = "S" THEN "s" ELSE c
LowerStr(str) == [i \in 1..Len(str) |-> LowerChar(str[i])]

\* the words goals are made of
GoalWords == {
    <<"S", "c", "a", "n">>,
    <<"d", "e", "p", "l", "o", "y">>,
    <<"p", "y", "t", "h", "o", "n">>,
    <<"e", "m", "a", "i", "l">>,
    <<"h", "e", "l", "l", "o">>,
    <<"@", "f", "u", "z", "z">>,
    <<"@", "g", "h", "o", "s", "t">>,
    <<"a", "-", "b", ".", "i", "o">>,
    <<"f", "u", "z", "z">> }

RECURSIVE JoinWords(_)
JoinWords(words) ==
    IF Len(words) = 0 THEN <<>>
    ELSE IF Len(words) = 1 THEN words[1]
    ELSE words[1] \o <<" ">> \o JoinWords(Tail(words))

\* the non-empty goal strings of the model
Goals ==
    { JoinWords(ws) : ws \in UNION { [1..n -> GoalWords] : n \in 1..MaxWords } }

\* planner.py:39  re.search(r"@([a-zA-Z0-9_-]+)", goal): group 1 of the
\* leftmost match, <<>> when there is none
NameChars == LowerLetters \cup UpperLetters \cup Digits \cup {"_", "-"}

RECURSIVE RunOf(_, _, _)
RunOf(str, i, class) ==
    IF i > Len(str) \/ str[i] \notin class THEN <<>>
    ELSE <<str[i]>> \o RunOf(str, i + 1, class)

AtStarts(goal) ==
    { i \in 1..Len(goal) : goal[i] = "@" /\ RunOf(goal, i + 1, NameChars) # <<>> }

AtName(goal) ==
    IF AtStarts(goal) = {} THEN <<>>
    ELSE LET i == CHOOSE k \in AtStarts(goal) : \A m \in AtStarts(goal) : k <= m
         IN  RunOf(goal, i + 1, NameChars)

\* planner.py:46,76  r'([a-z0-9]+(-[a-z0-9]+)*\.)+([a-z]{2,})'
IsLabel(str) ==
    /\ Len(str) > 0
    /\ \A i \in 1..Len(str) : str[i] \in LowerLetters \cup Digits \cup {"-"}
    /\ str[1] # "-" /\ str[Len(str)] # "-"
    /\ \A i \in 1..(Len(str) - 1) : ~(str[i] = "-" /\ str[i + 1] = "-")

IsTld(str) == Len(str) >= 2 /\ \A i \in 1..Len(str) : str[i] \in LowerLetters

RECURSIVE IsDomain(_)
IsDomain(str) ==
    \E k \in 2..Len(str) :
        /\ str[k] = "."
        /\ IsLabel(SubSeq(str, 1, k - 1))
        /\ LET rest == SubSeq(str, k + 1, Len(str))
           IN  IsTld(rest) \/ IsDomain(rest)

DomainSpans(str) ==
    { sp \in (1..Len(str)) \X (1..Len(str)) :
        sp[1] <= sp[2] /\ IsDomain(SubSeq(str, sp[1], sp[2])) }

\* the leftmost match, as long as it can be; "unknown" when there is none
ExtractTarget(goal) ==
    LET str == LowerStr(goal)
        spans == DomainSpans(str)
    IN  IF spans = {} THEN <<"u", "n", "k", "n", "o", "w", "n">>
        ELSE LET sp == CHOOSE a \in spans : \A b \in spans :
                           a[1] < b[1] \/ (a[1] = b[1] /\ a[2] >= b[2])
             IN  SubSeq(str, sp[1], sp[2])

\* `kw in goal_lower` for a list of keywords
AnyKeyword(kws, goal_lower) == \E kw \in kws : IsInfix(kw, goal_lower)

RECON_KEYWORDS == {
    <<"s", "c", "a", "n">>,
    <<"r", "e", "c", "o", "n">>,
    <<"d", "o", "m", "a", "i", "n">>,
    <<"v", "u", "l", "n">>,
    <<"n", "u", "c", "l", "e", "i">> }
DEV_KEYWORDS == {
    <<"g", "i", "t">>,
    <<"c", "l", "o", "n", "e">>,
    <<"d", "e", "p", "l", "o", "y">>,
    <<"l", "i", "n", "t">>,
    <<"t", "e", "s", "t">> }
CODE_KEYWORDS == {
    <<"c", "o", "d", "e">>,
    <<"s", "c", "r", "i", "p", "t">>,
    <<"a", "p", "p">>,
    <<"w", "r", "i", "t", "e">>,
    <<"p", "y", "t", "h", "o", "n">> }
OSINT_KEYWORDS == {
    <<"b", "r", "e", "a", "c", "h">>,
    <<"s", "o", "c", "i", "a", "l">>,
    <<"d", "a", "r", "k", "w", "e", "b">>,
    <<"e", "m", "a", "i", "l">> }

\* awesome_skills.py:84  stop_words
STOP_WORDS == {
    <<"a">>,
    <<"a", "n">>,
    <<"t", "h", "e">>,
    <<"h", "o", "w">>,
    <<"t", "o">>,
    <<"d", "o">>,
    <<"i">>,
    <<"c", "a", "n">>,
    <<"y", "o", "u">>,
    <<"f", "o", "r">>,
    <<"w", "i", "t", "h">>,
    <<"o", "n">>,
    <<"i", "n">>,
    <<"a", "n", "d">>,
    <<"o", "r">>,
    <<"t", "e", "s", "t">>,
    <<"w", "r", "i", "t", "e">>,
    <<"b", "u", "i", "l", "d">> }

\* the skills index: nothing (no index file), or one skill whose SKILL.md is
\* there, is missing, or cannot be read
FUZZ_SKILL(file) ==
    [id |-> <<"f", "u", "z", "z", "-", "0", "1">>, name |-> <<"F", "u", "z", "z">>,
     description |-> <<"f", "u", "z", "z", " ", "a", " ", "w", "e", "b", " ", "a", "p", "p">>,
     file |-> file]
SkillIndexes ==
    { <<>> } \cup { <<FUZZ_SKILL(file)>> : file \in {"ok", "missing", "unreadable"} }

NoSkill == [found |-> FALSE]
Loaded(skill) ==
    [found |-> TRUE, name |-> skill.name, raw_content |-> "SKILL.md"]

\* awesome_skills.py:51-70  get_skill_by_name
RECURSIVE SkillByNameFrom(_, _, _)
SkillByNameFrom(index, i, skill_name) ==
    IF i > Len(index) THEN NoSkill
    ELSE IF /\ \/ LowerStr(index[i].id) = skill_name
               \/ LowerStr(index[i].name) = skill_name
            /\ index[i].file = "ok"
         THEN Loaded(index[i])
         ELSE SkillByNameFrom(index, i + 1, skill_name)

get_skill_by_name(index, skill_name) ==
    SkillByNameFrom(index, 1, LowerStr(skill_name))

\* str.split() after "-" and "_" became spaces
RECURSIVE SplitWords(_, _, _)
SplitWords(str, i, word) ==
    IF i > Len(str) THEN (IF word = <<>> THEN {} ELSE {word})
    ELSE IF str[i] \in {" ", "-", "_"}
         THEN (IF word = <<>> THEN {} ELSE {word}) \cup SplitWords(str, i + 1, <<>>)
         ELSE SplitWords(str, i + 1, Append(word, str[i]))

RECURSIVE SkillScore(_, _)
SkillScore(skill, keywords) ==
    IF keywords = {} THEN 0
    ELSE LET kw == CHOOSE k \in keywords : TRUE
         IN  (IF IsInfix(kw, LowerStr(skill.name)) THEN 3 ELSE 0)
           + (IF IsInfix(kw, LowerStr(skill.description)) THEN 1 ELSE 0)
           + SkillScore(skill, keywords \ {kw})

\* awesome_skills.py:72-121  find_relevant_skill, score_threshold = 2
find_relevant_skill(index, goal) ==
    LET keywords == SplitWords(LowerStr(goal), 1, <<>>) \ STOP_WORDS
        score(i) == SkillScore(index[i], keywords)
        best == { i \in 1..Len(index) :
                    /\ score(i) > 0
                    /\ \A k \in 1..Len(index) :
                          score(k) < score(i) \/ (score(k) = score(i) /\ i <= k) }
    IN  IF best = {} THEN NoSkill
        ELSE LET i == CHOOSE k \in best : TRUE
             IN  IF score(i) >= 2 /\ index[i].file = "ok"
                 THEN Loaded(index[i])
                 ELSE NoSkill

AwesomePlan(goal, awesome_match) ==
    [skill |-> "awesome_skill_execution",
     params |-> [target |-> ExtractTarget(goal), goal |-> goal,
                 skill_name |-> awesome_match.name,
                 skill_content |-> awesome_match.raw_content]]

\* (mutant: the rule-based planner names no skill)
_plan_with_rules_nodefault(goal, index) ==
    [skill |-> "", params |-> [target |-> ExtractTarget(goal), goal |-> goal]]

\* planner.py:71-130  _plan_with_rules
_plan_with_rules(goal, index) ==
    LET goal_lower == LowerStr(goal)
        target == ExtractTarget(goal)
    IN  IF AnyKeyword(RECON_KEYWORDS, goal_lower)
        THEN [skill |-> "recon_osint",
              params |-> [target |-> target,
                          description |-> "Auto-planned recon based on goal"]]
        ELSE IF AnyKeyword(DEV_KEYWORDS, goal_lower)
        THEN [skill |-> "dev_ops",
              params |-> [target |-> target, action |-> "clone_and_test"]]
        ELSE IF AnyKeyword(CODE_KEYWORDS, goal_lower)
        THEN [skill |-> "autonomous_coder",
              params |-> [target |-> target, goal |-> goal]]
        ELSE IF AnyKeyword(OSINT_KEYWORDS, goal_lower)
        THEN [skill |-> "osint_mapping", params |-> [target |-> target]]
        ELSE IF find_relevant_skill(index, goal).found
        THEN AwesomePlan(goal, find_relevant_skill(index, goal))
        ELSE [skill |-> "agent_plan",
              params |-> [target |-> target, goal |-> goal]]

\* planner.py:132-156  _plan_with_llm: the completion call is a placeholder,
\* the try block and the except block both return the rule-based plan
_plan_with_llm(goal, index) == _plan_with_rules(goal, index)

\* planner.py:25-69  plan_goal
plan_goal(goal, llm, index) ==
    LET skill_name == AtName(goal)
        awesome_match == IF skill_name # <<>>
                         THEN get_skill_by_name(index, skill_name)
                         ELSE NoSkill
    IN  IF awesome_match.found THEN AwesomePlan(goal, awesome_match)
        ELSE IF llm THEN _plan_with_llm(goal, index)
        ELSE _plan_with_rules(goal, index)

\* one call of plan_goal
PlanGoal ==
    /\ pl_out = <<>>
    /\ pl_out' = <<plan_goal(pl_goal, pl_llm, pl_index)>>
    /\ UNCHANGED <<pl_goal, pl_llm, pl_index>>
    /\ UNCHANGED <<infVars, daemonVars, monVars, repVars, orchVars, replyVars,
                   stopVars, extraVars>>

PlannerInit(goal, llm, index) ==
    /\ pl_goal = goal
    /\ pl_llm = llm
    /\ pl_index = index
    /\ pl_out = <<>>

(***************************************************************************)
(*                    tg_bot.py: orchestrate <goal>                        *)
(***************************************************************************)
MaxOrch == 2
MaxOrchPresses == 2

\* os.urandom(4).hex()
OrchTokens == {"a1b2c3d4", "e5f6a7b8"}

\* the goals the operator sends; <<>> is the command without arguments
OrchGoals == { <<>>, <<"S", "c", "a", "n">>, <<"h", "e", "l", "l", "o">> }

\* tg_bot.py:270  approval_id = f"orch:{os.urandom(4).hex()}": cut at ":"
\* it is two pieces
OrchId(hex) == << <<"orch">>, <<hex>> >>

\* tg_bot.py:272-278  callback_data of the three buttons of a proposal
OrchPayloads(approval_id) ==
    { << <<a>> >> \o approval_id : a \in {"orch_ok", "orch_no", "orch_ports"} }

\* tg_bot.py:235-291  cmd_orchestrate from the allowlisted chat
CmdOrchestrate(goal, hex) ==
    /\ bot_token
    /\ orch_n < MaxOrch
    /\ orch_n' = orch_n + 1
    /\ IF goal = <<>>
       THEN UNCHANGED <<orch_plans, orch_buttons, orch_proposed>>
       ELSE LET plan == plan_goal(goal, pl_llm, pl_index)
                approval_id == OrchId(hex)
                entry == [skill |-> plan.skill, params |-> plan.params,
                          goal |-> goal]
            IN  /\ approval_id \notin DOMAIN orch_proposed
                /\ orch_plans' = PutKey(orch_plans, approval_id, entry)
                /\ orch_proposed' = PutKey(orch_proposed, approval_id, entry)
                /\ orch_buttons' =
                      [d \in DOMAIN orch_buttons \cup OrchPayloads(approval_id)
                         |-> IF d \in OrchPayloads(approval_id)
                             THEN approval_id ELSE orch_buttons[d]]
    /\ UNCHANGED <<orch_answered, orch_enqueued, orch_presses, orch_last>>
    /\ UNCHANGED <<infVars, daemonVars, monVars, repVars, planVars, replyVars,
                   stopVars, extraVars>>

\* tg_bot.py:628, 643  job_id = await _enqueue_callback(skill, params), the
\* callback being Daemon.enqueue
OrchEnqueue(skill, params) ==
    /\ DoEnqueue(skill)
    /\ orch_enqueued' = Append(orch_enqueued, [skill |-> skill, params |-> params])

OrchNoEnqueue ==
    UNCHANGED <<jobs, workers, notif, gate, queue, nextId, orch_enqueued>>

\* tg_bot.py:611-651  _handle_callback on a press of a proposal's button:
\* parts = data.split(":", 2), approval_id = parts[1], _pending_plans.pop
OrchCallback(data) ==
    /\ bot_token
    /\ orch_presses < MaxOrchPresses
    /\ data \in DOMAIN orch_buttons
    /\ orch_presses' = orch_presses + 1
    /\ orch_last' = data
    /\ orch_answered' = orch_answered \cup {orch_buttons[data]}
    /\ LET parts == SplitMax2(data)
           action == parts[1]
           approval_id == parts[2]
           found == approval_id \in DOMAIN orch_plans
       IN  /\ orch_plans' = DropKey(orch_plans, approval_id)
           /\ IF action = << <<"orch_ok">> >> /\ found
              THEN OrchEnqueue(orch_plans[approval_id].skill,
                               orch_plans[approval_id].params)
              ELSE IF action = << <<"orch_ports">> >> /\ found
              THEN OrchEnqueue(orch_plans[approval_id].skill,
                               [ports_only |-> TRUE]
                                   @@ orch_plans[approval_id].params)
              ELSE OrchNoEnqueue
    /\ UNCHANGED <<orch_buttons, orch_proposed, orch_n>>
    /\ UNCHANGED <<once, bot_token, chat_id, mainPc, sem, cancelled_jobs,
                   pending_approvals, buttons, presses, cancels, lifetime,
                   killedRunning, warned, foreign>>
    /\ UNCHANGED <<infVars, monVars, repVars, planVars, replyVars, stopVars, extraVars>>

OrchInit ==
    /\ orch_plans = <<>>
    /\ orch_buttons = <<>>
    /\ orch_proposed = <<>>
    /\ orch_answered = {}
    /\ orch_enqueued = <<>>
    /\ orch_n = 0
    /\ orch_presses = 0
    /\ orch_last = <<>>

(***************************************************************************)
(*                       tg_bot.py: reply <msg_id> <content>               *)
(***************************************************************************)
MaxReplies == 1

\* os.urandom(4).hex()
ReplyTokens == {"0a1b2c3d"}

\* tg_bot.py:403  approval_id = f"reply:{os.urandom(4).hex()}": cut at ":"
\* it is two pieces
ReplyId(hex) == << <<"reply">>, <<hex>> >>

\* tg_bot.py:393-410, 575-597  cmd_reply from the allowlisted chat up to the
\* wait of request_approval: the future is registered, the keyboard is sent.
\* The table of pending approvals stands for the one of the module that
\* serves the bot.
CmdReply(hex) ==
    /\ mainPc = "loop"
    /\ bot_token
    /\ reply_n < MaxReplies
    /\ ReplyId(hex) \notin DOMAIN reply_out
    /\ reply_n' = reply_n + 1
    /\ pending_approvals' = PutKey(pending_approvals, ReplyId(hex), Unresolved)
    /\ buttons' = buttons \cup ButtonPayloads(ReplyId(hex), <<>>)
    /\ reply_out' = PutKey(reply_out, ReplyId(hex), <<>>)
    /\ UNCHANGED <<once, bot_token, chat_id, mainPc, jobs, queue,
                   workers, sem, cancelled_jobs, notif, nextId, presses,
                   cancels, gate, lifetime, killedRunning, warned, foreign>>
    /\ UNCHANGED <<infVars, monVars, repVars, planVars, orchVars, stopVars, extraVars>>

\* tg_bot.py:599-607, 412-422  the wait of request_approval ends, with the
\* result set on the future or with the timeout; the entry is popped and
\* cmd_reply goes on with the outcome
ReplyWaitEnds(hex) ==
    /\ ReplyId(hex) \in DOMAIN pending_approvals
    /\ LET future == pending_approvals[ReplyId(hex)]
           result == IF future = Unresolved
                     THEN Outcome("timeout", NoChoice) ELSE future[1]
       IN  reply_out' = [reply_out EXCEPT ![ReplyId(hex)] = <<result>>]
    /\ pending_approvals' = DropKey(pending_approvals, ReplyId(hex))
    /\ UNCHANGED reply_n
    /\ UNCHANGED <<once, bot_token, chat_id, mainPc, jobs, queue,
                   workers, sem, cancelled_jobs, buttons, notif, nextId,
                   presses, cancels, gate, lifetime, killedRunning, warned,
                   foreign>>
    /\ UNCHANGED <<infVars, monVars, repVars, planVars, orchVars, stopVars, extraVars>>

ReplyInit ==
    /\ reply_n = 0
    /\ reply_out = <<>>

(***************************************************************************)
(*            cache.py: store called from several processes                *)
(***************************************************************************)
\* the processes that import cache and share its Redis databases
\* (daemon.py, monitor.py)
Procs == {1, 2}

\* calls of store begun in one behaviour of SpecConc
MaxStores == 4

Idle == [pc |-> "idle", prompt |-> <<>>, response |-> None,
         old_id |-> NoId, entry_id |-> NoId]

\* cache.py:239-245, 348-359  store: the exact tier's setex, then
\* _store_semantic up to index_len = llen("sem:index")
StoreLlen(p, prompt, response) ==
    /\ st_n < MaxStores
    /\ storing[p].pc = "idle"
    /\ st_n' = st_n + 1
    /\ exact' = _store_exact(prompt, response, NoFault)
    /\ storing' =
          IF ~r_sem \/ embed_backend = "none" THEN storing
          ELSE [storing EXCEPT ![p] =
                   [Idle EXCEPT !.pc = IF IndexFull(sem_index)
                                       THEN "lpop" ELSE "hset",
                                !.prompt = prompt,
                                !.response = response]]
    /\ UNCHANGED <<r_exact, r_sem, embed_backend, sem_index, sem_rec, stats,
                   clock, ledger, nOps, last>>
    /\ UNCHANGED <<daemonVars, baseAux, stepVars, downVars, sugVars>>

\* cache.py:360  old_id = lpop("sem:index"), None on an empty list
StoreLpop(p) ==
    /\ storing[p].pc = "lpop"
    /\ IF Len(sem_index) = 0
       THEN /\ storing' = [storing EXCEPT ![p].pc = "hset"]
            /\ UNCHANGED sem_index
       ELSE /\ storing' = [storing EXCEPT ![p].pc = "delete",
                                          ![p].old_id = Head(sem_index)]
            /\ sem_index' = Tail(sem_index)
    /\ UNCHANGED <<r_exact, r_sem, embed_backend, exact, sem_rec, stats,
                   clock, ledger, nOps, last, st_n>>
    /\ UNCHANGED <<daemonVars, baseAux, stepVars, downVars, sugVars>>

\* cache.py:361-362  delete("sem:embed:<old_id>")
StoreDelete(p) ==
    /\ storing[p].pc = "delete"
    /\ sem_rec' = IF storing[p].old_id \in DOMAIN sem_rec
                  THEN DropKey(sem_rec, storing[p].old_id) ELSE sem_rec
    /\ storing' = [storing EXCEPT ![p].pc = "hset"]
    /\ UNCHANGED <<r_exact, r_sem, embed_backend, exact, sem_index, stats,
                   clock, ledger, nOps, last, st_n>>
    /\ UNCHANGED <<daemonVars, baseAux, stepVars, downVars, sugVars>>

\* cache.py:364-369  entry_id from the prompt and the time, then hset; the
\* clock is read at another instant by every call
StoreHset(p) ==
    /\ storing[p].pc = "hset"
    /\ LET id == EntryId(storing[p].prompt)
       IN  /\ sem_rec' = PutKey(sem_rec, id,
                                [vec |-> Embed(storing[p].prompt),
                                 response |-> storing[p].response,
                                 prompt |-> storing[p].prompt,
                                 ttl |-> FALSE])
           /\ storing' = [storing EXCEPT ![p].pc = "expire",
                                         ![p].entry_id = id]
    /\ clock' = clock + 1
    /\ UNCHANGED <<r_exact, r_sem, embed_backend, exact, sem_index, stats,
                   ledger, nOps, last, st_n>>
    /\ UNCHANGED <<daemonVars, baseAux, stepVars, downVars, sugVars>>

\* cache.py:370  expire("sem:embed:<entry_id>", CACHE_SEMANTIC_TTL)
StoreExpire(p) ==
    /\ storing[p].pc = "expire"
    /\ sem_rec' = IF storing[p].entry_id \in DOMAIN sem_rec
                  THEN [sem_rec EXCEPT ![storing[p].entry_id].ttl = TRUE]
                  ELSE sem_rec
    /\ storing' = [storing EXCEPT ![p].pc = "rpush"]
    /\ UNCHANGED <<r_exact, r_sem, embed_backend, exact, sem_index, stats,
                   clock, ledger, nOps, last, st_n>>
    /\ UNCHANGED <<daemonVars, baseAux, stepVars, downVars, sugVars>>

\* cache.py:371  rpush("sem:index", entry_id); store returns
StoreRpush(p) ==
    /\ storing[p].pc = "rpush"
    /\ sem_index' = Append(sem_index, storing[p].entry_id)
    /\ storing' = [storing EXCEPT ![p] = Idle]
    /\ UNCHANGED <<r_exact, r_sem, embed_backend, exact, sem_rec, stats,
                   clock, ledger, nOps, last, st_n>>
    /\ UNCHANGED <<daemonVars, baseAux, stepVars, downVars, sugVars>>

ConcInit ==
    /\ storing = [p \in Procs |-> Idle]
    /\ st_n = 0

(***************************************************************************)
(*                 daemon.py: shutdown and its callers                     *)
(***************************************************************************)
\* signals delivered in one behaviour
MaxSignals == 2

\* daemon.py:611-639  start(): the bot task is created; run() enters its
\* loop
SdStart ==
    /\ sd_main = "run"
    /\ sd_run = "boot"
    /\ sd_run' = "loop"
    /\ sd_bot' = "running"
    /\ UNCHANGED <<sd_notifier, sd_once, sd_win32, sd_main, sd_calls, sd_stop,
                   sd_cancels, sd_offline, sd_signals>>
    /\ UNCHANGED <<infVars, daemonVars, baseAux, concVars, stepVars, sugVars>>

\* daemon.py:699-706  _run_telegram ends: the polling loop crashed, or the
\* CancelledError of a cancel() has reached it
BotTaskEnds ==
    /\ sd_main # "closed"
    /\ sd_bot \in {"running", "cancelling"}
    /\ sd_bot' = "done"
    /\ UNCHANGED <<sd_notifier, sd_once, sd_win32, sd_main, sd_run, sd_calls,
                   sd_stop, sd_cancels, sd_offline, sd_signals>>
    /\ UNCHANGED <<infVars, daemonVars, baseAux, concVars, stepVars, sugVars>>

\* daemon.py:709-718  shutdown() up to its first await: the stop event is
\* set and a bot task that is not done is cancelled and awaited
shutdown(by) ==
    /\ sd_stop' = TRUE
    /\ IF sd_bot \in {"running", "cancelling"}
       THEN /\ sd_bot' = "cancelling"
            /\ sd_cancels' = sd_cancels + 1
            /\ sd_calls' = Append(sd_calls, [by |-> by, pc |-> "await_bot"])
       ELSE /\ UNCHANGED <<sd_bot, sd_cancels>>
            /\ sd_calls' = Append(sd_calls,
                                  [by |-> by,
                                   pc |-> IF sd_notifier THEN "send"
                                          ELSE "done"])

\* daemon.py:714-719  `await self._bot_task` returns
BotAwaited(k) ==
    /\ sd_main # "closed"
    /\ k \in 1..Len(sd_calls)
    /\ sd_calls[k].pc = "await_bot"
    /\ sd_bot = "done"
    /\ sd_calls' = [sd_calls EXCEPT
                       ![k].pc = IF sd_notifier THEN "send" ELSE "done"]
    /\ UNCHANGED <<sd_notifier, sd_once, sd_win32, sd_main, sd_run, sd_stop,
                   sd_bot, sd_cancels, sd_offline, sd_signals>>
    /\ UNCHANGED <<infVars, daemonVars, baseAux, concVars, stepVars, sugVars>>

\* daemon.py:720-726  the "daemon offline" message is sent and shutdown()
\* returns
OfflineSent(k) ==
    /\ sd_main # "closed"
    /\ k \in 1..Len(sd_calls)
    /\ sd_calls[k].pc = "send"
    /\ sd_calls' = [sd_calls EXCEPT ![k].pc = "done"]
    /\ sd_offline' = sd_offline + 1
    /\ UNCHANGED <<sd_notifier, sd_once, sd_win32, sd_main, sd_run, sd_stop,
                   sd_bot, sd_cancels, sd_signals>>
    /\ UNCHANGED <<infVars, daemonVars, baseAux, concVars, stepVars, sugVars>>

\* daemon.py:753-764  SIGINT / SIGTERM: the handler starts a task that runs
\* shutdown()
SignalHandler ==
    /\ ~sd_win32
    /\ sd_main = "run"
    /\ sd_run \in {"loop", "finally"}
    /\ sd_signals < MaxSignals
    /\ sd_signals' = sd_signals + 1
    /\ shutdown("signal")
    /\ UNCHANGED <<sd_notifier, sd_once, sd_win32, sd_main, sd_run,
                   sd_offline>>
    /\ UNCHANGED <<infVars, daemonVars, baseAux, concVars, stepVars, sugVars>>

\* daemon.py:648-666  the loop of run() ends, because the stop event is set
\* or by the break of once mode, and its finally branch calls shutdown()
RunFinally ==
    /\ sd_main # "closed"
    /\ sd_run = "loop"
    /\ sd_stop \/ sd_once
    /\ sd_run' = "finally"
    /\ shutdown("run")
    /\ UNCHANGED <<sd_notifier, sd_once, sd_win32, sd_main, sd_offline,
                   sd_signals>>
    /\ UNCHANGED <<infVars, daemonVars, baseAux, concVars, stepVars, sugVars>>

\* daemon.py:664-666, 805-811  the shutdown() of run() has returned, run()
\* returns; main, if it is still waiting for run(), closes the loop
RunReturns ==
    /\ sd_main # "closed"
    /\ sd_run = "finally"
    /\ \E k \in 1..Len(sd_calls) :
          sd_calls[k].by = "run" /\ sd_calls[k].pc = "done"
    /\ sd_run' = "returned"
    /\ sd_main' = IF sd_main = "run" THEN "closed" ELSE sd_main
    /\ UNCHANGED <<sd_notifier, sd_once, sd_win32, sd_calls, sd_stop, sd_bot,
                   sd_cancels, sd_offline, sd_signals>>
    /\ UNCHANGED <<infVars, daemonVars, baseAux, concVars, stepVars, sugVars>>

\* daemon.py:805-809  Ctrl-C where no handler is installed: main catches
\* KeyboardInterrupt and runs shutdown() on the loop, on which the task of
\* run() is still pending
KeyboardInterrupt ==
    /\ sd_win32
    /\ sd_main = "run"
    /\ sd_run \in {"loop", "finally"}
    /\ sd_main' = "keyboard"
    /\ shutdown("main")
    /\ UNCHANGED <<sd_notifier, sd_once, sd_win32, sd_run, sd_offline,
                   sd_signals>>
    /\ UNCHANGED <<infVars, daemonVars, baseAux, concVars, stepVars, sugVars>>

\* daemon.py:809-811  the shutdown() of main has returned; the loop is
\* closed
MainCloses ==
    /\ sd_main = "keyboard"
    /\ \E k \in 1..Len(sd_calls) :
          sd_calls[k].by = "main" /\ sd_calls[k].pc = "done"
    /\ sd_main' = "closed"
    /\ UNCHANGED <<sd_notifier, sd_once, sd_win32, sd_run, sd_calls, sd_stop,
                   sd_bot, sd_cancels, sd_offline, sd_signals>>
    /\ UNCHANGED <<infVars, daemonVars, baseAux, concVars, stepVars, sugVars>>

\* daemon.py:585-593, 770-795  a Daemon as main constructs it
DownInit(notifier, o, win32) ==
    /\ sd_notifier = notifier
    /\ sd_once = o
    /\ sd_win32 = win32
    /\ sd_main = "run"
    /\ sd_run = "boot"
    /\ sd_calls = <<>>
    /\ sd_stop = FALSE
    /\ sd_bot = "none"
    /\ sd_cancels = 0
    /\ sd_offline = 0
    /\ sd_signals = 0

(***************************************************************************)
(*                   data.py: suggest_next_from_data                       *)
(***************************************************************************)
\* the ports a scan may report, in the order of aggregate's
\* ORDER BY CAST(port AS INTEGER) (data.py:326-330)
PortUniverse == <<"22", "80", "443", "445", "3306", "6379", "9999">>

\* the same strings in the order of Python's sorted() on str
LexOrder == <<"22", "3306", "443", "445", "6379", "80", "9999">>

\* data.py:1044  web_ports
web_ports == {"80", "443", "8080", "8443", "8000", "3000"}

\* data.py:1073  smb_ports
smb_ports == {"445", "139"}

\* data.py:1082-1083  db_ports in dict order
db_ports == << <<"3306", "mysql">>, <<"5432", "postgres">>,
               <<"27017", "mongodb">>, <<"6379", "redis">>,
               <<"9200", "elasticsearch">> >>

\* the elements of a sequence
Range(seq) == {seq[k] : k \in 1..Len(seq)}

\* the members of a set of ports as sorted(found_web) lists them
SortedPorts(S) == SelectSeq(LexOrder, LAMBDA x : x \in S)

Suggestion(action, priority) == [action |-> action, priority |-> priority]

\* data.py:1086-1092  the loop over db_ports
RECURSIVE DbSuggestions(_, _)
DbSuggestions(k, open_ports) ==
    IF k > Len(db_ports) THEN <<>>
    ELSE (IF db_ports[k][1] \in Range(open_ports)
          THEN <<Suggestion(<<"nmap -sV -p ", db_ports[k][1], " --script=",
                              db_ports[k][2], " TARGET">>, 2)>>
          ELSE <<>>)
         \o DbSuggestions(k + 1, open_ports)

\* data.py:1022-1110  the suggestions in the order the rules append them
Appended(agg) ==
    LET crit_high == agg.severity_counts.critical + agg.severity_counts.high
        found_web == Range(agg.open_ports) \cap web_ports
        p1 == IF crit_high > 0
              THEN <<Suggestion(<<"nuclei --severity critical,high">>, 1),
                     Suggestion(<<"manual_review">>, 1)>>
              ELSE <<>>
        p2 == IF found_web # {}
              THEN <<Suggestion(<<"gobuster dir -u http://TARGET:">>
                                    \o SortedPorts(found_web), 2),
                     Suggestion(<<"ffuf -u http://TARGET/FUZZ -w /usr/share/wordlists/dirb/common.txt">>, 3),
                     Suggestion(<<"nikto -h TARGET">>, 3)>>
              ELSE <<>>
        p3 == IF "22" \in Range(agg.open_ports)
              THEN <<Suggestion(<<"ssh_audit TARGET">>, 2)>> ELSE <<>>
        p4 == IF Range(agg.open_ports) \cap smb_ports # {}
              THEN <<Suggestion(<<"netexec smb TARGET --shares">>, 2)>>
              ELSE <<>>
        p5 == DbSuggestions(1, agg.open_ports)
        p6 == IF agg.subdomains_found > 0
              THEN <<Suggestion(<<"httpx -l subs.parquet -status-code -title -tech-detect">>, 3)>>
              ELSE <<>>
        p7 == IF agg.total_vulns > 0 /\ crit_high = 0
              THEN <<Suggestion(<<"vuln_prioritise">>, 4)>> ELSE <<>>
        found == p1 \o p2 \o p3 \o p4 \o p5 \o p6 \o p7
    IN  IF found = <<>>
        THEN <<Suggestion(<<"amass enum -passive -d TARGET">>, 5),
               Suggestion(<<"masscan -p1-65535 TARGET --rate 1000">>, 5)>>
        ELSE found

\* x put into a list that is sorted by priority, behind the entries whose
\* priority is not greater
RECURSIVE InsertByPriority(_, _)
InsertByPriority(x, list) ==
    IF list = <<>> THEN <<x>>
    ELSE IF Head(list).priority <= x.priority
         THEN <<Head(list)>> \o InsertByPriority(x, Tail(list))
         ELSE <<x>> \o list

\* the entries of a list placed one after the other by InsertByPriority
RECURSIVE StableSort(_)
StableSort(list) ==
    IF list = <<>> THEN <<>>
    ELSE InsertByPriority(list[Len(list)],
                          StableSort(SubSeq(list, 1, Len(list) - 1)))

\* (mutant: the suggestions are left in the order they were appended)
sorted_not(suggestions) == suggestions

\* data.py:1116  sorted(suggestions, key=priority): a stable sort
sorted(suggestions) == StableSort(suggestions)

\* data.py:1113-1119  the first entry of each action, in the given order
RECURSIVE Deduplicated(_, _)
Deduplicated(list, seen) ==
    IF list = <<>> THEN <<>>
    ELSE IF Head(list).action \in seen
         THEN Deduplicated(Tail(list), seen)
         ELSE <<Head(list)>>
              \o Deduplicated(Tail(list), seen \cup {Head(list).action})

\* data.py:1005-1122
suggest_next_from_data(agg) == Deduplicated(sorted(Appended(agg)), {})

\* data.py:302-350  what aggregate can return, on a few ports and counts;
\* total_vulns is the sum of the counts of all severities
PortLists ==
    { SelectSeq(PortUniverse, LAMBDA x : x \in S) :
          S \in SUBSET Range(PortUniverse) }
Aggregates ==
    { [severity_counts |-> [critical |-> c, high |-> h, medium |-> m],
       total_vulns |-> c + h + m + i,
       open_ports |-> ports,
       subdomains_found |-> subs] :
          c \in {0, 1}, h \in {0, 2}, m \in {0, 1}, i \in {0, 1},
          ports \in PortLists, subs \in {0, 3} }

\* the call
SuggestNext ==
    /\ ~sug_called
    /\ sug_called' = TRUE
    /\ sug_out' = suggest_next_from_data(sug_agg)
    /\ UNCHANGED sug_agg
    /\ UNCHANGED <<infVars, daemonVars, baseAux, concVars, stepVars, downVars>>

SugInit(agg) ==
    /\ sug_agg = agg
    /\ sug_called = FALSE
    /\ sug_out = <<>>

NoAggregate ==
    [severity_counts |-> [critical |-> 0, high |-> 0, medium |-> 0],
     total_vulns |-> 0, open_ports |-> <<>>, subdomains_found |-> 0]

BaseExtraInit ==
    /\ ConcInit
    /\ StepInit
    /\ SugInit(NoAggregate)

ExtraInit ==
    /\ BaseExtraInit
    /\ DownInit(FALSE, FALSE, FALSE)

AuxInit ==
    /\ MonitorInit("medium", FALSE, FALSE)
    /\ ReportInit(<<>>)
    /\ PlannerInit(<<"h", "i">>, FALSE, <<>>)
    /\ OrchInit
    /\ ReplyInit
    /\ StopInit
    /\ ExtraInit

(***************************************************************************)
(*                     Initial states and specifications                   *)
(***************************************************************************)
\* cache.py:203-208  a Cache on empty Redis databases, each reachable or
\* not, with or without an embedding backend; an empty token ledger
InfInit(re, rs, eb) ==
    /\ r_exact = re
    /\ r_sem = rs
    /\ embed_backend = eb
    /\ exact = [p \in Prompts |-> None]
    /\ sem_index = <<>>
    /\ sem_rec = <<>>
    /\ stats = [hits_exact |-> 0, hits_semantic |-> 0, misses |-> 0]
    /\ clock = 0
    /\ ledger = <<>>
    /\ nOps = 0
    /\ last = Called("init", <<>>, None, "none", TRUE, 0, FALSE, FALSE,
                   FALSE)

\* daemon.py:585-593, telegram.py:72, 348  a Daemon as constructed
DaemonInitMode(bt, ci, o) ==
    /\ bot_token = bt
    /\ chat_id = ci
    /\ mainPc = "boot"
    /\ jobs = <<>>
    /\ queue = <<>>
    /\ workers = <<>>
    /\ sem = MAX_CONCURRENT_JOBS
    /\ cancelled_jobs = {}
    /\ pending_approvals = <<>>
    /\ buttons = {}
    /\ notif = <<>>
    /\ nextId = 1
    /\ presses = 0
    /\ cancels = 0
    /\ gate = <<>>
    /\ lifetime = 0
    /\ killedRunning = {}
    /\ warned = {}
    /\ foreign = 0
    /\ once = o

\* the long-running mode
DaemonInit(bt, ci) == DaemonInitMode(bt, ci, FALSE)

InitInference ==
    /\ \E re \in BOOLEAN, rs \in BOOLEAN, eb \in {"none", "ngram_numpy"} :
          InfInit(re, rs, eb)
    /\ DaemonInit(FALSE, FALSE)
    /\ AuxInit

Init ==
    /\ InfInit(TRUE, TRUE, "ngram_numpy")
    /\ \E bt \in BOOLEAN, ci \in BOOLEAN : DaemonInit(bt, ci)
    /\ AuxInit

NextCache ==
    \/ \E p \in Prompts, f \in Faults : Check(p, f)
    \/ \E p \in Prompts, r \in Responses, f \in Faults : Store(p, r, f)
    \/ \E p \in Prompts : ExpireExact(p)
    \/ \E id \in RecIds : ExpireSemantic(id)

NextAsk ==
    \/ \E p \in Prompts, r \in Responses : Store(p, r, NoFault)
    \/ \E p \in Prompts : Check(p, NoFault)
    \/ /\ nOps < MaxAsks
       /\ \E in \in AskInputs, tier \in TierInputs, skip_cache \in BOOLEAN,
             f \in AskFaults, nfail \in FailCounts, c \in Completions,
             logFail \in BOOLEAN :
             \* what no provider call reads is not varied: the completion
             \* when every attempt fails, the attempts of an unknown tier
             /\ nfail = AllFail => (c.text = "4" /\ ~logFail)
             /\ tier \notin DOMAIN PROVIDERS =>
                   (nfail = 0 /\ c.text = "4" /\ ~logFail /\ ~skip_cache)
             /\ Ask(in, tier, skip_cache, f, nfail, c.text, c.usage,
                    c.raw_cost, logFail)

Next ==
    \/ \E skill \in SkillNames : Preseed(skill)
    \/ Start
    \/ CmdRecon
    \/ DrainQueue
    \/ \E j \in 1..MaxJobs : Acquire(j)
    \/ \E j \in 1..MaxJobs, result \in ToolResults("nuclei") :
          ToolReturn(j, result)
    \/ \E j \in 1..MaxJobs, how \in SendOutcomes : ApprovalSend(j, how)
    \/ \E j \in 1..MaxJobs : ApprovalTimeout(j)
    \/ \E j \in 1..MaxJobs : ApprovalReturn(j)
    \/ \E j \in 1..MaxJobs : ReportSend(j)
    \/ \E data \in buttons : HandleCallback(data)
    \/ \E j \in 1..MaxJobs : CmdCancel(j)

NextCrash == Next \/ KillRestart

SpecCache == InitInference /\ [][NextCache]_vars
SpecAsk == InitInference /\ [][NextAsk]_vars
Spec == Init /\ [][Next]_vars
SpecCrash == Init /\ [][NextCrash]_vars

\* the daemon that keeps running, with Telegram configured.  The event loop
\* runs every task that is ready, the heartbeat ticks, every tool call
\* returns and the deadline of every approval wait passes unless an answer
\* came first: weak fairness of the heartbeat and of each step of each
\* worker task
InitLive ==
    /\ InfInit(TRUE, TRUE, "ngram_numpy")
    /\ DaemonInit(TRUE, TRUE)
    /\ AuxInit

\* daemon.py:682-692  the next step of the worker task of job j: the slot
\* it waits for is free, the answer of its tool call arrives, its keyboard
\* is sent or not, the deadline of its approval passes, its report is sent
WorkerStep(j) ==
    \/ Acquire(j)
    \/ \E result \in ToolResults("nuclei") : ToolReturn(j, result)
    \/ \E how \in SendOutcomes : ApprovalSend(j, how)
    \/ ApprovalTimeout(j)
    \/ ReportSend(j)

\* daemon.py:643-662  run(): start(), then a _drain_queue per heartbeat
Heartbeat == Start \/ DrainQueue

Fairness ==
    /\ WF_vars(Heartbeat)
    /\ \A j \in 1..MaxJobs : WF_vars(WorkerStep(j))

SpecLive == InitLive /\ [][Next]_vars /\ Fairness

\* the daemon with updates from other chats as well
NextForeign ==
    \/ Next
    \/ \E cmd \in {"recon", "cancel", "status"} : StrangerCommand(cmd)
    \/ \E data \in buttons : StrangerCallback(data)

SpecForeign == Init /\ [][NextForeign]_vars

InitMonitor ==
    /\ InfInit(TRUE, TRUE, "ngram_numpy")
    /\ DaemonInit(FALSE, FALSE)
    /\ \E minimum \in {"medium", "info", "urgent"}, dry \in BOOLEAN,
          redis \in BOOLEAN : MonitorInit(minimum, dry, redis)
    /\ ReportInit(<<>>)
    /\ PlannerInit(<<"h", "i">>, FALSE, <<>>)
    /\ OrchInit
    /\ ReplyInit
    /\ StopInit
    /\ ExtraInit

NextMonitor ==
    \/ \E feed \in FeedResults : BeginPass(feed)
    \/ \E redisFails \in BOOLEAN, sendOk \in BOOLEAN :
          ProcessAlert(redisFails, sendOk)
    \/ \E fp \in mon_keys : ExpireSeenKey(fp)

SpecMonitor == InitMonitor /\ [][NextMonitor]_vars

InitReport ==
    /\ InfInit(TRUE, TRUE, "ngram_numpy")
    /\ DaemonInit(TRUE, TRUE)
    /\ MonitorInit("medium", FALSE, FALSE)
    /\ \E findings \in FindingLists : ReportInit(findings)
    /\ PlannerInit(<<"h", "i">>, FALSE, <<>>)
    /\ OrchInit
    /\ ReplyInit
    /\ StopInit
    /\ ExtraInit

NextReport == EmitReport

SpecReport == InitReport /\ [][NextReport]_vars

InitPlanner ==
    /\ InfInit(TRUE, TRUE, "ngram_numpy")
    /\ DaemonInit(TRUE, TRUE)
    /\ MonitorInit("medium", FALSE, FALSE)
    /\ ReportInit(<<>>)
    /\ \E goal \in Goals, llm \in BOOLEAN, index \in SkillIndexes :
          PlannerInit(goal, llm, index)
    /\ OrchInit
    /\ ReplyInit
    /\ StopInit
    /\ ExtraInit

NextPlanner == PlanGoal

SpecPlanner == InitPlanner /\ [][NextPlanner]_vars

InitOrch ==
    /\ InfInit(TRUE, TRUE, "ngram_numpy")
    /\ DaemonInit(TRUE, TRUE)
    /\ MonitorInit("medium", FALSE, FALSE)
    /\ ReportInit(<<>>)
    /\ \E llm \in BOOLEAN, index \in SkillIndexes :
          PlannerInit(<<"h", "i">>, llm, index)
    /\ OrchInit
    /\ ReplyInit
    /\ StopInit
    /\ ExtraInit

NextOrch ==
    \/ \E goal \in OrchGoals, hex \in OrchTokens : CmdOrchestrate(goal, hex)
    \/ \E data \in DOMAIN orch_buttons : OrchCallback(data)

SpecOrch == InitOrch /\ [][NextOrch]_vars

\* one seeded job with its gate, and the reply command beside it
InitReply ==
    /\ InfInit(TRUE, TRUE, "ngram_numpy")
    /\ DaemonInit(TRUE, TRUE)
    /\ AuxInit

NextReply ==
    \/ \E skill \in SkillNames : Preseed(skill)
    \/ Start
    \/ DrainQueue
    \/ \E j \in 1..MaxJobs : Acquire(j)
    \/ \E j \in 1..MaxJobs, result \in ToolResults("nuclei") :
          ToolReturn(j, result)
    \/ \E j \in 1..MaxJobs, how \in SendOutcomes : ApprovalSend(j, how)
    \/ \E j \in 1..MaxJobs : ApprovalTimeout(j)
    \/ \E j \in 1..MaxJobs : ApprovalReturn(j)
    \/ \E j \in 1..MaxJobs : ReportSend(j)
    \/ \E data \in buttons : HandleCallback(data)
    \/ \E hex \in ReplyTokens : CmdReply(hex)
    \/ \E hex \in ReplyTokens : ReplyWaitEnds(hex)

SpecReply == InitReply /\ [][NextReply]_vars

\* the daemon in either mode, up to the end of the process: while
\* shutdown() awaits, the worker tasks still run
InitStop ==
    /\ InfInit(TRUE, TRUE, "ngram_numpy")
    /\ \E bt \in BOOLEAN, o \in BOOLEAN : DaemonInitMode(bt, bt, o)
    /\ AuxInit

NextStop ==
    \/ \E skill \in SkillNames : Preseed(skill)
    \/ Start
    \/ RunOnce
    \/ CmdRecon
    \/ DrainQueue
    \/ Terminate
    \/ Exit
    \/ mainPc # "exited" /\ \E j \in 1..MaxJobs : Acquire(j)
    \/ mainPc # "exited"
          /\ \E j \in 1..MaxJobs, result \in ToolResults("nuclei") :
                ToolReturn(j, result)
    \/ mainPc # "exited"
          /\ \E j \in 1..MaxJobs, how \in SendOutcomes : ApprovalSend(j, how)
    \/ mainPc # "exited" /\ \E j \in 1..MaxJobs : ApprovalTimeout(j)
    \/ mainPc # "exited" /\ \E j \in 1..MaxJobs : ReportSend(j)

SpecStop == InitStop /\ [][NextStop]_vars

\* two processes storing into one semantic tier, command by command
InitConc ==
    /\ InfInit(TRUE, TRUE, "ngram_numpy")
    /\ DaemonInit(FALSE, FALSE)
    /\ AuxInit

NextConc ==
    \/ \E p \in Procs, prompt \in Prompts, r \in Responses :
          StoreLlen(p, prompt, r)
    \/ \E p \in Procs : StoreLpop(p)
    \/ \E p \in Procs : StoreDelete(p)
    \/ \E p \in Procs : StoreHset(p)
    \/ \E p \in Procs : StoreExpire(p)
    \/ \E p \in Procs : StoreRpush(p)

SpecConc == InitConc /\ [][NextConc]_vars

\* one lifetime of the daemon process, from main to the closed loop
InitDown ==
    /\ InfInit(TRUE, TRUE, "ngram_numpy")
    /\ DaemonInit(FALSE, FALSE)
    /\ MonitorInit("medium", FALSE, FALSE)
    /\ ReportInit(<<>>)
    /\ PlannerInit(<<"h", "i">>, FALSE, <<>>)
    /\ OrchInit
    /\ ReplyInit
    /\ StopInit
    /\ BaseExtraInit
    /\ \E notifier \in BOOLEAN, o \in BOOLEAN, win32 \in BOOLEAN :
          DownInit(notifier, o, win32)

NextDown ==
    \/ SdStart
    \/ BotTaskEnds
    \/ SignalHandler
    \/ KeyboardInterrupt
    \/ RunFinally
    \/ RunReturns
    \/ MainCloses
    \/ \E k \in 1..Len(sd_calls) : BotAwaited(k)
    \/ \E k \in 1..Len(sd_calls) : OfflineSent(k)

SpecDown == InitDown /\ [][NextDown]_vars

\* a call of suggest_next_from_data on any aggregate
InitSuggest ==
    /\ InfInit(TRUE, TRUE, "ngram_numpy")
    /\ DaemonInit(FALSE, FALSE)
    /\ MonitorInit("medium", FALSE, FALSE)
    /\ ReportInit(<<>>)
    /\ PlannerInit(<<"h", "i">>, FALSE, <<>>)
    /\ OrchInit
    /\ ReplyInit
    /\ StopInit
    /\ ConcInit
    /\ StepInit
    /\ DownInit(FALSE, FALSE, FALSE)
    /\ \E agg \in Aggregates : SugInit(agg)

NextSuggest == SuggestNext

SpecSuggest == InitSuggest /\ [][NextSuggest]_vars

(***************************************************************************)
(*                             Properties                                  *)
(***************************************************************************)

\* C1 - Cache hit is free: whatever ask / store / check calls were made,
\* every row of the token ledger with cache_hit = true has tokens_in = 0,
\* tokens_out = 0 and cost_usd = 0.
C1_CacheHitIsFree ==
    \A k \in 1..Len(ledger) :
        ledger[k].cache_hit =>
            /\ ledger[k].tokens_in = 0
            /\ ledger[k].tokens_out = 0
            /\ ledger[k].cost_usd = 0

\* an ask was answered from the cache and its row is in the ledger, next
\* to the row of a paid call
C1_Witness ==
    /\ last.op = "ask"
    /\ last.tier \in {"exact", "semantic"}
    /\ Len(ledger) = 2
    /\ ~ledger[1].cache_hit /\ ledger[1].tokens_in > 0
    /\ ledger[2].cache_hit

C10_EvictionBound ==
    /\ Len(sem_index) <= CACHE_SEMANTIC_MAX_ENTRIES
    /\ Cardinality(RecIds) <= CACHE_SEMANTIC_MAX_ENTRIES

\* the order of the statuses in a job's life
StatusRank(status) ==
    CASE status = "pending" -> 0
      [] status = "running" -> 1
      [] OTHER              -> 2

\* C2 - Status monotonicity: the statuses a job takes over its life are a
\* subsequence of pending, running, one of done / failed / cancelled, and
\* once a job is done, failed or cancelled its status never changes again,
\* whichever step, notification or persistence call raises.
C2_StatusMonotonic ==
    [][ \A j \in JobIds \cap DOMAIN jobs' :
          /\ StatusRank(jobs[j].status) <= StatusRank(jobs'[j].status)
          /\ jobs[j].status \in Terminal => jobs'[j].status = jobs[j].status
      ]_vars

\* the workers that are inside run_skill, holding the semaphore
InFlight ==
    {j \in JobIds :
        workers[j].pc \in {"tool", "approval_send", "approval_wait", "report"}}

\* C3 - Concurrency bound: in every reachable state, for any number of
\* enqueued jobs and any interleaving of the worker tasks, at most
\* MAX_CONCURRENT_JOBS workers are inside run_skill holding the semaphore.
C3_ConcurrencyBound ==
    /\ Cardinality(InFlight) <= MAX_CONCURRENT_JOBS
    /\ sem = MAX_CONCURRENT_JOBS - Cardinality(InFlight)

\* every slot is taken and a further worker waits for the semaphore
C3_Witness ==
    /\ Cardinality(InFlight) = MAX_CONCURRENT_JOBS
    /\ \E j \in JobIds : workers[j].pc = "waitsem"

\* C4 - At-most-one resolution: at most one outcome is ever written to the
\* resolver of an approval id, however button callbacks, the timeout and
\* /cancel race; request_approval returns exactly one outcome, the written
\* one or timeout, and every later callback writes nothing.
C4_AtMostOneResolution ==
    \A j \in DOMAIN gate :
        /\ Len(gate[j].written) <= 1
        /\ Len(gate[j].returned) <= 1
        /\ gate[j].returned # <<>> =>
              \/ gate[j].returned = gate[j].written
              \/ gate[j].returned = <<Outcome("timeout", NoChoice)>>
        /\ (gate[j].written # <<>>
              /\ SuggestId(j) \notin DOMAIN pending_approvals) =>
              Len(gate[j].returned) = 1

\* two buttons of the only gate were pressed: the first press resolved it
\* with a choice, request_approval returned that choice
C4_Witness ==
    /\ nextId = 2
    /\ presses = 2
    /\ gate[1].written # <<>>
    /\ gate[1].written[1].action = "choice"
    /\ gate[1].returned = gate[1].written

\* C5 - Guaranteed release: whenever a request_approval call has returned
\* or raised - operator answer, timeout, failure while the operator message
\* is sent - the pending-approvals table holds no entry for its id.
C5_GuaranteedRelease ==
    \A j \in JobIds :
        workers[j].pc \notin {"approval_send", "approval_wait"}
            => SuggestId(j) \notin DOMAIN pending_approvals

\* C6 - Cancellation short-circuits the gate: when the operator issues
\* /cancel <job_id> while that job's suggest_next step is blocked in
\* request_approval, the gate registered by the job is resolved with the
\* outcome cancel.
C6_CancelResolvesGate ==
    \A j \in DOMAIN gate :
        gate[j].cancelAtWait
            => gate[j].written = <<Outcome("cancel", NoChoice)>>

\* C7 - Cancel during approval ends the job as cancelled: when /cancel
\* <job_id> was issued while the job was blocked in request_approval, the
\* job's final status is cancelled and exactly one cancellation notification
\* was emitted for it.
C7_CancelDuringApproval ==
    \A j \in JobIds :
        (gate[j].cancelAtWait /\ jobs[j].status \in Terminal)
            => (jobs[j].status = "cancelled" /\ notif[j].cancelled = 1)

\* C8 - Crash resume: a job that was running when the process was killed
\* is, in the restarted process, back in the job table as pending before
\* anything is dispatched, and is dispatched again.
C8_CrashResume ==
    \A j \in killedRunning :
        /\ j \in JobIds
        /\ (\A k \in JobIds : workers[k].pc = "none")
              => (jobs[j].status = "pending"
                  /\ \E k \in 1..Len(queue) : queue[k] = j)

\* C11 - Deduplication: within every monitor pass and across the passes of
\* one Monitor, no two alerts that were sent (and so no two that were
\* delivered to the operator) have the same fingerprint, whatever duplicates
\* the feeds return.
C11_Deduplication ==
    /\ \A a, b \in 1..Len(mon_sent) :
          a # b => Fingerprint(mon_sent[a]) # Fingerprint(mon_sent[b])
    /\ \A a, b \in 1..Len(mon_delivered) :
          a # b => Fingerprint(mon_delivered[a]) # Fingerprint(mon_delivered[b])

\* the second pass has fetched again what was delivered in the first, and
\* has skipped all of it
C11_Witness ==
    /\ mon_passes = 2
    /\ mon_pending = <<>>
    /\ Len(mon_delivered) = 2
    /\ mon_keys = {}

\* a listing is in non-increasing severity
Descending(sevs) ==
    \A a, b \in 1..Len(sevs) :
        a < b => SevKey(Lower(sevs[a])) <= SevKey(Lower(sevs[b]))

\* C12 - Severity ordering: in every report emitted when a job completes,
\* the top findings and the severity histogram are listed in non-increasing
\* severity, critical before high before medium before low before info,
\* whatever the order in which the steps produced the findings.
C12_SeverityOrdering ==
    rep_report.emitted =>
        /\ Descending([i \in 1..Len(rep_report.severity) |->
                          rep_report.severity[i][1]])
        /\ Descending(rep_report.top)

\* C13  Planner totality: for every non-empty goal, with or without an @name
\* token, whether or not the named skill is in the index, with or without a
\* model provider, plan_goal returns a plan with params and a non-empty skill
C13_PlannerTotality ==
    pl_out # <<>> =>
        /\ Len(pl_out) = 1
        /\ DOMAIN pl_out[1] = {"skill", "params"}
        /\ pl_out[1].skill # ""

\* an @name that is not in the index, no rule matches: the default plan
C13_Witness ==
    /\ pl_out # <<>>
    /\ pl_goal # <<>>
    /\ AtName(pl_goal) # <<>>
    /\ pl_index # <<>>
    /\ ~get_skill_by_name(pl_index, AtName(pl_goal)).found
    /\ pl_llm
    /\ pl_out[1].skill = "agent_plan"


TerminalNotifications(j) ==
    notif[j].report + notif[j].failed + notif[j].cancelled

C16_RouterNeverRaises ==
    (last.op = "ask" /\ last.exhausted) =>
        /\ ~last.raised
        /\ last.ret \in { ErrorText(tier) : tier \in DOMAIN PROVIDERS }
        /\ \E tier \in DOMAIN PROVIDERS :
              last.attempts = Len(PROVIDERS[tier]) * MAX_RETRIES

\* each of the three providers of a rotation has failed three times, with
\* the cache in front unreachable as well
C16_Witness ==
    /\ last.op = "ask" /\ last.exhausted
    /\ last.attempts = 3 * MAX_RETRIES
    /\ ~last.clean
    /\ last.tier = "miss"


\* an ask that went to a provider and got an answer, nothing having failed
AnsweredByProvider(l) ==
    /\ l.op = "ask" /\ l.tier = "miss" /\ ~l.exhausted /\ ~l.raised
    /\ l.clean

\* C17  Identical re-ask: with the cache store reachable, an ask that was
\* answered by a provider logs one row with cache_hit false, and the same
\* ask repeated right after it makes no provider call, returns the same
\* text and logs one row more, with cache_hit true and zero tokens: two
\* rows for the two calls
C17_IdenticalReask ==
    [][ /\ ( /\ r_exact /\ r_sem
             /\ nOps' = nOps + 1 /\ AnsweredByProvider(last') )
          => ( /\ Len(ledger') = Len(ledger) + 1
               /\ ~ledger'[Len(ledger')].cache_hit )
        /\ ( /\ r_exact /\ r_sem
             /\ AnsweredByProvider(last)
             /\ nOps' = nOps + 1 /\ last'.op = "ask"
             /\ last'.prompt = last.prompt
             /\ last'.tier # "skipped" /\ ~last'.raised /\ last'.clean )
          => ( /\ last'.tier \in {"exact", "semantic"}
               /\ last'.attempts = 0
               /\ last'.ret = last.ret
               /\ Len(ledger') = Len(ledger) + 1
               /\ ~ledger[Len(ledger)].cache_hit
               /\ ledger'[Len(ledger')].cache_hit
               /\ ledger'[Len(ledger')].tokens_in = 0
               /\ ledger'[Len(ledger')].tokens_out = 0
               /\ SubSeq(ledger', 1, Len(ledger)) = ledger ) ]_vars

\* the second of two identical asks was a hit: two rows, a miss and a hit
C17_Witness ==
    /\ r_exact /\ r_sem
    /\ nOps = 2 /\ last.op = "ask" /\ last.tier = "exact" /\ last.clean
    /\ last.ret = "four"
    /\ Len(ledger) = 2
    /\ ~ledger[1].cache_hit /\ ledger[1].tokens_in = 12
    /\ ledger[2].cache_hit /\ ledger[2].tokens_in = 0


C19_AllowlistGating ==
    [][ foreign' = foreign + 1 =>
          /\ jobs' = jobs /\ queue' = queue
          /\ cancelled_jobs' = cancelled_jobs
          /\ pending_approvals' = pending_approvals ]_vars


\* C20  Orchestrate enqueues on approve: the first press on a proposal, when
\* it is Approve, enqueues exactly one job with the planned skill and
\* params; an Abort press enqueues none; a press on a proposal that has
\* already had one enqueues nothing
C20_OrchestrateEnqueuesOnApprove ==
    [][ orch_presses' = orch_presses + 1 =>
          LET data == orch_last'
              approval_id == orch_buttons[data]
              first == approval_id \notin orch_answered
              plan == orch_proposed[approval_id]
          IN  /\ (data[1] = <<"orch_ok">> /\ first) =>
                    /\ orch_enqueued' =
                          Append(orch_enqueued, [skill |-> plan.skill,
                                                 params |-> plan.params])
                    /\ Len(queue') = Len(queue) + 1
                    /\ jobs'[queue'[Len(queue')]].skill = plan.skill
              /\ (data[1] = <<"orch_no">> \/ ~first) =>
                    /\ orch_enqueued' = orch_enqueued
                    /\ queue' = queue ]_vars


\* the payloads of the buttons that request_approval builds for an approval
\* id: the action, the id, and for a choice button the choice
BuiltFor(approval_id) ==
    {d \in buttons :
        /\ Len(d) >= 1 + Len(approval_id)
        /\ SubSeq(d, 2, 1 + Len(approval_id)) = approval_id
        /\ \/ d[1] \in {<<"approve">>, <<"deny">>}
              /\ Len(d) = 1 + Len(approval_id)
           \/ d[1] = <<"choice">> /\ Len(d) = 2 + Len(approval_id)}

\* the outcome a button stands for
ButtonOutcome(approval_id, d) ==
    IF d[1] = <<"choice">>
    THEN Outcome("choice", SubSeq(d, 2 + Len(approval_id), Len(d)))
    ELSE Outcome(d[1][1], NoChoice)

\* C21  A button press resolves the gate it belongs to: every press is the
\* press of a button d that the operator has, such that, if d was built
\* for a registered approval id (suggest_<job id>, reply:<hex>) whose
\* request is pending, the outcome of d is written to the resolver of that
\* id
C21_PressResolvesItsGate ==
    [][ presses' = presses + 1 =>
          \E d \in buttons :
              \A approval_id \in DOMAIN pending_approvals :
                  (pending_approvals[approval_id] = Unresolved
                     /\ d \in BuiltFor(approval_id)) =>
                        pending_approvals'[approval_id] =
                            <<ButtonOutcome(approval_id, d)>> ]_vars


\* C22  Approval timeout: when the wait of a gate ends and no button was
\* pressed, request_approval returns timeout and the job is done (and stays
\* done); a press after the timeout leaves the job, its worker and its
\* gate as they are and finds no resolver under the gate's id
C22_ApprovalTimeout ==
    [][ \A j \in JobIds \cap DOMAIN jobs' :
          /\ (workers[j].pc = "approval_wait" /\ gate[j].written = <<>>
                /\ workers'[j].pc # "approval_wait") =>
                   gate'[j].returned = <<Outcome("timeout", NoChoice)>>
          /\ (gate'[j].returned = <<Outcome("timeout", NoChoice)>>
                /\ gate'[j].written = <<>>) => jobs'[j].status = "done"
          /\ (presses' = presses + 1
                /\ gate[j].returned = <<Outcome("timeout", NoChoice)>>) =>
                   /\ jobs'[j] = jobs[j] /\ workers'[j] = workers[j]
                   /\ gate'[j] = gate[j] /\ notif'[j] = notif[j]
                   /\ SuggestId(j) \notin DOMAIN pending_approvals'
                   /\ UNCHANGED <<queue, sem, cancelled_jobs>> ]_vars

\* the gate of the only job timed out with no button pressed, the job is
\* done, and a button, which can only be one of that gate, was pressed
\* afterwards
C22_Witness ==
    /\ nextId = 2
    /\ gate[1].returned = <<Outcome("timeout", NoChoice)>>
    /\ gate[1].written = <<>>
    /\ jobs[1].status = "done"
    /\ presses > 0


\* C23  Graceful shutdown: when the process has exited, every worker that
\* was inside run_skill when the stop event was set has finished the step
\* it was executing then (it is at a later step or has left run_skill)
C23_GracefulShutdown ==
    mainPc = "exited" =>
        \A j \in DOMAIN atStop :
            j \in DOMAIN Executing(workers) => workers[j].i > atStop[j]

\* C24  No resolver leaks across shutdown: when the process has exited, the
\* table of pending approvals is empty
C24_NoResolverLeak ==
    mainPc = "exited" => pending_approvals = <<>>

\* C26  run --once drains then exits: when a daemon in once mode has
\* exited, every job it was given is done, failed or cancelled
C26_OnceDrainsThenExits ==
    (once /\ mainPc = "exited") =>
        \A j \in JobIds : jobs[j].status \in Terminal


\* C27  Rotation and retry budget: the provider calls of an ask that missed
\* the cache follow one tier's rotation list in order, MAX_RETRIES calls to a
\* provider before the next provider is called; every call before the last
\* one failed and the ask returns the answer of the last one when that one
\* succeeded; no more than MAX_RETRIES times the length of the list are made
C27_RotationBudget ==
    (last.op = "ask" /\ last.tried # <<>>) =>
        \E tier \in DOMAIN PROVIDERS :
            LET rotation == PROVIDERS[tier]
                n == Len(last.tried)
            IN  /\ n <= MAX_RETRIES * Len(rotation)
                /\ last.attempts = n
                /\ \A k \in 1..n :
                      /\ last.tried[k].model =
                            rotation[((k - 1) \div MAX_RETRIES) + 1]
                      /\ k < n => ~last.tried[k].ok
                /\ last.tried[n].ok = ~last.exhausted
                /\ last.exhausted => n = MAX_RETRIES * Len(rotation)

\* the first provider of the high tier failed MAX_RETRIES times and the
\* second one answered at its first call
C27_Witness ==
    /\ last.op = "ask" /\ ~last.exhausted
    /\ Len(last.tried) = MAX_RETRIES + 1
    /\ last.tried[MAX_RETRIES].model = GEMINI_15_PRO
    /\ last.tried[MAX_RETRIES + 1] = [model |-> OR_GEMINI_PRO, ok |-> TRUE]
    /\ last.ret = "four"


\* the jobs in the queue
Queued == {queue[k] : k \in 1..Len(queue)}

\* C25  Dispatch latency: a job that has no worker yet is in the queue, and
\* a heartbeat tick that takes jobs from the queue takes them all and
\* spawns a worker for each, so that no job enqueued before a tick is
\* without a worker at the end of it
C25_DispatchLatency ==
    /\ [](\A j \in JobIds : workers[j].pc = "none" <=> j \in Queued)
    /\ [][ Len(queue') < Len(queue) =>
             /\ queue' = <<>>
             /\ \A j \in Queued : workers'[j].pc = "waitsem" ]_vars

\* two jobs have been enqueued, each has its worker and none is left in
\* the queue
C25_Witness ==
    /\ mainPc = "loop"
    /\ nextId = 3
    /\ queue = <<>>
    /\ workers[1].pc = "waitsem" /\ workers[2].pc = "waitsem"


C29_ResultErrorMatchStatus ==
    \A j \in JobIds :
        /\ jobs[j].result.set <=> jobs[j].status = "done"
        /\ jobs[j].error <=> jobs[j].status = "failed"

\* C30  Timestamps follow the status: started_at is set exactly for the
\* jobs that have become running, and finished_at is set exactly for the
\* jobs that are done, failed or cancelled
C30_TimestampsFollowStatus ==
    \A j \in JobIds :
        /\ jobs[j].started_at <=> jobs[j].status # "pending"
        /\ jobs[j].finished_at <=> jobs[j].status \in Terminal

\* the cost the rate table gives a model under its own key: the rates of
\* the row whose key is the model's name, 0 for a name that is no key
RECURSIVE OwnRatesFrom(_, _, _, _)
OwnRatesFrom(i, model, tokens_in, tokens_out) ==
    IF i > Len(COST_PER_1M) THEN 0
    ELSE IF COST_PER_1M[i][1] = model
         THEN tokens_in * COST_PER_1M[i][2] + tokens_out * COST_PER_1M[i][3]
         ELSE OwnRatesFrom(i + 1, model, tokens_in, tokens_out)

\* C40  cost estimation uses the model's own rates: every ledger row of a
\* provider call holds either the cost the provider reported or the
\* estimate (tokens_in * r_in + tokens_out * r_out) / 1e6 with the rates of
\* the row's own model in COST_PER_1M, which is 0 for the :free models
C40_OwnRates ==
    \A k \in 1..Len(ledger) :
        ~ledger[k].cache_hit =>
            \E c \in Completions :
                /\ ledger[k].tokens_in = c.usage[1]
                /\ ledger[k].tokens_out = c.usage[2]
                /\ ledger[k].cost_usd =
                       IF c.raw_cost # NoCost /\ c.raw_cost # 0
                       THEN c.raw_cost
                       ELSE OwnRatesFrom(1, ledger[k].model,
                                         c.usage[1], c.usage[2])

\* the texts ask synthesizes when a rotation is exhausted
ErrorTexts == { ErrorText(tier) : tier \in DOMAIN PROVIDERS }

\* every call of the rotation was made and failed
AllProvidersFailed(call) ==
    /\ call.op = "ask"
    /\ Len(call.tried) = AllFail
    /\ \A t \in 1..Len(call.tried) : ~call.tried[t].ok

\* C37  a failed inference leaves cache and ledger unchanged: an ask in
\* which every provider failed returns the synthesized error text, stores
\* nothing in either cache tier and appends no ledger row; no cache entry
\* ever holds an error text and no error text is ever served from the cache
C37_FailedAskLeavesNoTrace ==
    /\ [](/\ \A p \in Prompts : exact[p] \notin ErrorTexts
          /\ \A id \in RecIds : sem_rec[id].response \notin ErrorTexts
          /\ last.ret \in ErrorTexts => last.tier \notin {"exact", "semantic"})
    /\ [][ (nOps' = nOps + 1 /\ AllProvidersFailed(last'))
           => ( /\ last'.ret \in ErrorTexts
                /\ exact' = exact
                /\ sem_index' = sem_index
                /\ sem_rec' = sem_rec
                /\ ledger' = ledger ) ]_vars

\* an ask was answered by a provider, stored and logged; the next ask went
\* through the cache, missed, and found every provider failing
C37_Witness ==
    /\ nOps = 2
    /\ AllProvidersFailed(last)
    /\ last.tier = "miss"
    /\ last.ret \in ErrorTexts
    /\ Len(ledger) = 1
    /\ \E p \in Prompts : exact[p] # None

\* C34  FIFO eviction with stateless reads: a store that changes a full
\* semantic tier removes the id at the head of the index (the earliest
\* inserted) together with its record, keeps every other id in its order
\* and every other record as it was, and adds at most its own new entry at
\* the tail; a check, hit or miss, leaves the index and the records as they
\* were
C34_FifoEviction ==
    [][ /\ ( /\ nOps' = nOps + 1
             /\ last'.op = "store"
             /\ Len(sem_index) >= CACHE_SEMANTIC_MAX_ENTRIES
             /\ <<sem_index, sem_rec>>' # <<sem_index, sem_rec>> )
          => ( /\ \/ sem_index' = Tail(sem_index)
                  \/ /\ Len(sem_index') = Len(sem_index)
                     /\ SubSeq(sem_index', 1, Len(sem_index) - 1)
                            = Tail(sem_index)
                     /\ sem_index'[Len(sem_index')] = EntryId(last'.prompt)
               /\ Head(sem_index) \notin DOMAIN sem_rec'
               /\ \A id \in RecIds \ {Head(sem_index)} :
                      id \in DOMAIN sem_rec' /\ sem_rec'[id] = sem_rec[id] )
        /\ (nOps' = nOps + 1 /\ last'.op = "check")
          => (sem_index' = sem_index /\ sem_rec' = sem_rec) ]_vars

\* C35  the cache is safe under concurrent callers: with the commands of
\* concurrent stores interleaved in any order, the semantic index never
\* holds more than CACHE_SEMANTIC_MAX_ENTRIES ids, and no id is in the index
\* twice
C35_ConcurrentStoreBound ==
    /\ Len(sem_index) <= CACHE_SEMANTIC_MAX_ENTRIES
    /\ \A a, b \in 1..Len(sem_index) : sem_index[a] = sem_index[b] => a = b

\* the step whose head the worker of job j reaches when it runs next, 0 if
\* it is not about to reach one
NextHead(j) ==
    CASE workers[j].pc = "waitsem" /\ SkillExists(jobs[j].skill) -> 1
      [] workers[j].pc \in {"tool", "approval_wait"} -> workers[j].i + 1
      [] OTHER -> 0

\* C31  cancellation at a step boundary: when the worker of a job reaches
\* the check before step i with the job's flag set, the job ends cancelled
\* at step i, the flag is cleared, the worker leaves run_skill without
\* running step i or a later one and gives back its slot; a cancel command
\* that arrives while a tool call is in flight leaves the worker and the job
\* as they are, and the call's result is still taken into the findings
C31_CancelAtStepBoundary ==
    [][ \A j \in JobIds :
          /\ ( /\ j \in cancelled_jobs
               /\ workers'[j] # workers[j]
               /\ NextHead(j) \in 1..Len(SkillSteps(jobs[j].skill)) )
             => ( /\ jobs'[j].status = "cancelled"
                  /\ j \notin cancelled_jobs'
                  /\ workers'[j].pc = "exited"
                  /\ workers'[j].i = NextHead(j)
                  /\ notif'[j].cancelled = notif[j].cancelled + 1
                  /\ sem' = IF workers[j].pc = "waitsem" THEN sem ELSE sem + 1
                  /\ workers[j].pc = "tool" =>
                       \E result \in
                             ToolResults(SkillSteps(jobs[j].skill)[workers[j].i]) :
                          workers'[j].findings =
                             IF result.success
                             THEN workers[j].findings \o
                                  _extract_findings(
                                      SkillSteps(jobs[j].skill)[workers[j].i],
                                      result)
                             ELSE workers[j].findings )
          /\ ( cancels' = cancels + 1 /\ workers[j].pc = "tool" )
             => ( workers'[j] = workers[j] /\ jobs'[j] = jobs[j] )
          /\ workers[j].pc = "exited"
             => ( workers'[j] = workers[j] /\ jobs'[j] = jobs[j] ) ]_vars

\* a job whose cancel arrived while the tool of step 1 was in flight: the
\* call returned, its findings were taken, and the job was cancelled at the
\* check before step 2
C31_Witness ==
    \E j \in JobIds :
        /\ jobs[j].status = "cancelled"
        /\ workers[j].pc = "exited"
        /\ workers[j].i = 2
        /\ Len(workers[j].findings) > 0
        /\ j \notin cancelled_jobs
        /\ cancels = 1

\* C38  the cancellation registry holds no stale flag: the id of a job that
\* is done, failed or cancelled is not in the registry
C38_NoStaleCancelFlag ==
    \A j \in JobIds : jobs[j].status \in Terminal => j \notin cancelled_jobs

\* the tool call of step i of job j returns in this step, without success
SoftFails(j, i) ==
    /\ workers[j].pc = "tool"
    /\ workers[j].i = i
    /\ <<j, i>> \in DOMAIN results'
    /\ Len(results'[<<j, i>>]) = Len(GetKey(results, <<j, i>>, <<>>)) + 1
    /\ ~results'[<<j, i>>][Len(results'[<<j, i>>])].success

C39_ShutdownOnce ==
    /\ sd_offline <= 1
    /\ sd_cancels <= 1

\* C36  every job terminates: while the daemon keeps running, every job
\* that was enqueued is eventually done, failed or cancelled with its
\* worker out of run_skill and its slot of the semaphore given back
\* (at every moment a later moment comes at which every job enqueued so far
\* has ended)
C36_EveryJobTerminates ==
    []<>( /\ \A j \in JobIds : /\ jobs[j].status \in Terminal
                                /\ workers[j].pc = "exited"
          /\ sem = MAX_CONCURRENT_JOBS )

\* three jobs competed for the two slots and all of them have ended, one of
\* them cancelled; every slot is free again
C36_Witness ==
    /\ JobIds = 1..MaxJobs
    /\ \A j \in JobIds : jobs[j].status \in Terminal /\ workers[j].pc = "exited"
    /\ \E j \in JobIds : jobs[j].status = "cancelled"
    /\ \E j \in JobIds : jobs[j].status = "done"
    /\ sem = MAX_CONCURRENT_JOBS

\* the rule of the predicate table an action comes from: 1 critical/high,
\* 2 web ports, 3 SSH, 4 SMB, 5 database ports, 6 subdomains,
\* 7 prioritisation, 8 widen recon
RuleOf(action) ==
    CASE action[1] \in {"nuclei --severity critical,high", "manual_review"} -> 1
      [] action[1] \in {"gobuster dir -u http://TARGET:",
                        "ffuf -u http://TARGET/FUZZ -w /usr/share/wordlists/dirb/common.txt",
                        "nikto -h TARGET"} -> 2
      [] action[1] = "ssh_audit TARGET" -> 3
      [] action[1] = "netexec smb TARGET --shares" -> 4
      [] action[1] = "nmap -sV -p " -> 5
      [] action[1] = "httpx -l subs.parquet -status-code -title -tech-detect" -> 6
      [] action[1] = "vuln_prioritise" -> 7
      [] OTHER -> 8

\* C32  next-step heuristic output shape: the list suggest_next_from_data
\* returns is not empty, its priorities never decrease, no action is in it
\* twice, and entries of equal priority stand in the order of the predicate
\* table
C32_SuggestionShape ==
    sug_called =>
        /\ Len(sug_out) > 0
        /\ \A a, b \in 1..Len(sug_out) :
              a < b => /\ sug_out[a].priority <= sug_out[b].priority
                       /\ sug_out[a].action # sug_out[b].action
                       /\ sug_out[a].priority = sug_out[b].priority
                            => RuleOf(sug_out[a].action)
                                   <= RuleOf(sug_out[b].action)

\* a job with web, SSH, SMB and database ports open and subdomains found:
\* the entries of priority 2 come from four rules, those of priority 3 from
\* two
C32_Witness ==
    /\ sug_called
    /\ {RuleOf(sug_out[k].action) :
           k \in {n \in 1..Len(sug_out) : sug_out[n].priority = 2}}
         = {2, 3, 4, 5}
    /\ {RuleOf(sug_out[k].action) :
           k \in {n \in 1..Len(sug_out) : sug_out[n].priority = 3}}
         = {2, 6}
    /\ sug_out[1].priority = 1

=============================================================================
